---- MODULE Spec2Model ----
(***************************************************************************)
(* Verification model of the geometry and rendering core:                  *)
(*   - the clipping-mask compositor of renderer/renderElement.ts           *)
(*   - the bounds cache and bounds computation of element/bounds.ts        *)
(*   - the transform-handle hit test (resizeTest) of element/bounds.ts     *)
(* Each subsystem has its own specification over its own variables; the    *)
(* variables of the other subsystems stay at their initial values.         *)
(***************************************************************************)
EXTENDS Integers, Sequences, FiniteSets, TLC

VARIABLES
  \* ---- clipping-mask compositor (renderElement.ts) ----
  elemType,          \* element id -> type discriminator
  orderKey,          \* element id -> fractional order key (element.index)
  maskedElementsMap, \* process-wide Map: mask id -> list of accumulated elements
  frame,             \* number of the static render pass in progress
  rendered,          \* elements passed to renderElement in the current pass
  mainDraws,         \* mask id -> composites drawn on the main surface this pass
  lastCall,          \* what the most recent renderElement call did
  pastUnion,         \* elements passed in some earlier pass
  pastInter,         \* elements passed in every earlier pass
  composited,        \* mask id -> the batch composited in this pass, as drawn
  completedBefore,   \* mask ids whose batch completed and was drawn in an earlier pass
  \* ---- bounds cache (element/bounds.ts) ----
  scene,             \* shape id -> the shape record
  boundsCache,       \* ElementBounds.boundsCache: shape id -> {version, bounds}
  bcall,             \* what the most recent getBounds / getCommonBounds call did
  lastRet,           \* shape id -> identity of the array getBounds last returned for it
  dirtyAny,          \* shape id -> some shape was mutated since getBounds last ran on it
  dirtySelf,         \* shape id -> it was mutated since getBounds last ran on it
  partialUsed,       \* getBounds has run with a lookup that is not the whole scene
  \* ---- bounds of one shape (ElementBounds.calculateBounds) ----
  calcShape,         \* the shape handed to getBounds
  calcOut,           \* the bounds returned for it, <<>> before the call
  \* ---- transform-handle hit test (resizeTest) ----
  rtIn,              \* the shape, its selection, the device, the zoom and the handles
  rtOut,             \* the most recent resizeTest call: pointer and result
  cwOut,             \* the same for CropWindowResizeTest, when it was called last
  \* ---- raster cache (generateElementWithCanvas) ----
  rasterEnv,         \* what the entry of one shape is compared with
  rasterCache,       \* elementWithCanvasCache.get(element), or NoRaster
  rasterCall,        \* the most recent generateElementWithCanvas call
  \* ---- functions of their arguments alone ----
  pureCall,          \* the most recent call: [op, arg, result]
  \* ---- throttled interactive render ----
  throttle,          \* the scheduler: pending config, calls since the last tick, ticks
  throttleOut,       \* what the most recent tick or unthrottled call rendered
  \* ---- one interactive render pass ----
  passCall           \* the most recent _renderInteractiveScene call: input and outcome

maskVars == <<elemType, orderKey, maskedElementsMap, frame, rendered, mainDraws,
              lastCall, pastUnion, pastInter, composited, completedBefore>>

boundsVars == <<scene, boundsCache, bcall, lastRet, dirtyAny, dirtySelf,
                partialUsed>>

calcVars == <<calcShape, calcOut>>

resizeVars == <<rtIn, rtOut, cwOut>>

rasterVars == <<rasterEnv, rasterCache, rasterCall>>

throttleVars == <<throttle, throttleOut>>

newVars == <<rasterVars, pureCall, throttleVars, passCall>>

oldVars == <<maskVars, boundsVars, calcVars, resizeVars>>

vars == <<oldVars, newVars>>

\* what an operation of one subsystem leaves alone
notMaskVars == <<boundsVars, calcVars, resizeVars, newVars>>
notBoundsVars == <<maskVars, calcVars, resizeVars, newVars>>
notCalcVars == <<maskVars, boundsVars, resizeVars, newVars>>
notResizeVars == <<maskVars, boundsVars, calcVars, newVars>>

(***************************************************************************)
(* Bounds of the model.                                                    *)
(***************************************************************************)
MaxFrames == 3
MaxUnknown == 1
MaxAccum == 4
MaxVersion == 2

(***************************************************************************)
(* Generic helpers.                                                        *)
(***************************************************************************)
Min2(a, b) == IF a <= b THEN a ELSE b
Max2(a, b) == IF a >= b THEN a ELSE b

SeqToSet(s) == { s[i] : i \in 1..Len(s) }

(***************************************************************************)
(* The scene of the compositor model: three shapes grouped into one        *)
(* clipping mask by actionMakeClippingMask, and one untagged shape.        *)
(***************************************************************************)
Elements == {"e1", "e2", "e3", "e4"}
MaskIds == {"m1"}

KnownTypes == {"rectangle", "diamond", "ellipse", "line", "arrow", "freedraw",
               "text", "image", "frame", "magicframe", "iframe", "embeddable"}
UnknownType == "widget"

\* the type every shape has unless it is the one of unrecognised type
DefaultType(e) ==
  CASE e = "e1" -> "rectangle"
    [] e = "e2" -> "ellipse"
    [] e = "e3" -> "image"
    [] OTHER    -> "text"

isMakeClippingMask(e) == e \in {"e1", "e2", "e3"}
clippingMaskId(e) == IF e \in {"e1", "e2", "e3"} THEN "m1" ELSE ""
cmGroupLength(e) == IF e \in {"e1", "e2", "e3"} THEN 3 ELSE 0
cmeIndex(e) ==
  CASE e = "e1" -> 1
    [] e = "e2" -> 2
    [] e = "e3" -> 3
    [] OTHER    -> 0

Members(m) == { e \in Elements : isMakeClippingMask(e) /\ clippingMaskId(e) = m }
DeclaredSize(m) == cmGroupLength(CHOOSE e \in Members(m) : TRUE)

(***************************************************************************)
(* Fractional order keys (element.index), as sequences of character codes. *)
(* The scene carries one of two key tables: "a0" < "a1" < "a2" < "a3", the *)
(* keys of four shapes created one after the other, or                     *)
(* "a0" < "a0V" < "a0k" < "a1", the keys after one shape was inserted      *)
(* between a0 and a1 and another between that shape and a1.                *)
(***************************************************************************)
IndexTables ==
  { [e \in Elements |->
       CASE e = "e1" -> <<97, 48>>
         [] e = "e2" -> <<97, 49>>
         [] e = "e3" -> <<97, 50>>
         [] OTHER    -> <<97, 51>>],
    [e \in Elements |->
       CASE e = "e1" -> <<97, 48>>
         [] e = "e2" -> <<97, 48, 86>>
         [] e = "e3" -> <<97, 48, 107>>
         [] OTHER    -> <<97, 49>>] }

index(e) == orderKey[e]

IsUpper(c) == c >= 65 /\ c <= 90
IsDigit(c) == c >= 48 /\ c <= 57

\* primary collation weight: digits before letters, letters without case
PrimaryWeight(c) ==
  IF IsDigit(c) THEN c - 48
  ELSE IF IsUpper(c) THEN 10 + (c - 65)
  ELSE 10 + (c - 97)

\* tertiary collation weight: lower case before upper case
TertiaryWeight(c) == IF IsUpper(c) THEN 1 ELSE 0

RECURSIVE LexCompare(_, _, _)
LexCompare(a, b, i) ==
  IF i > Len(a) /\ i > Len(b) THEN 0
  ELSE IF i > Len(a) THEN -1
  ELSE IF i > Len(b) THEN 1
  ELSE IF a[i] < b[i] THEN -1
  ELSE IF a[i] > b[i] THEN 1
  ELSE LexCompare(a, b, i + 1)

PrimaryKey(a) == [i \in 1..Len(a) |-> PrimaryWeight(a[i])]
TertiaryKey(a) == [i \in 1..Len(a) |-> TertiaryWeight(a[i])]

\* the order of the keys themselves: plain comparison of the code units
KeyCompare(a, b) == LexCompare(a, b, 1)

\* String.prototype.localeCompare on alphanumeric keys: the primary weights
\* decide, the case only breaks a tie
LocaleCompare(a, b) ==
  LET p == LexCompare(PrimaryKey(a), PrimaryKey(b), 1)
  IN IF p # 0 THEN p ELSE LexCompare(TertiaryKey(a), TertiaryKey(b), 1)

\* the comparator handed to Array.prototype.sort
SortComparator(a, b) == LocaleCompare(index(a), index(b))

\* Array.prototype.sort is stable: x goes after every element that is not
\* greater than it
RECURSIVE InsertSorted(_, _)
InsertSorted(s, x) ==
  IF s = <<>> THEN <<x>>
  ELSE IF SortComparator(x, Head(s)) < 0 THEN <<x>> \o s
  ELSE <<Head(s)>> \o InsertSorted(Tail(s), x)

RECURSIVE SortMasked(_)
SortMasked(s) ==
  IF s = <<>> THEN <<>>
  ELSE InsertSorted(SortMasked(SubSeq(s, 1, Len(s) - 1)), s[Len(s)])

(***************************************************************************)
(* unconditionalRenderElement: raises on a type outside the switch.        *)
(***************************************************************************)
UnconditionalRaises(e) == elemType[e] \notin KnownTypes

\* the tag test that sends a shape to the compositor
IsMaskTagged(e) ==
  /\ isMakeClippingMask(e)
  /\ clippingMaskId(e) # ""
  /\ cmGroupLength(e) # 0
  /\ cmeIndex(e) # 0

MapHas(m) == m \in DOMAIN maskedElementsMap
MapGet(m) == IF MapHas(m) THEN maskedElementsMap[m] ELSE <<>>

\* the batch test made after every push
BatchCompleteLoose(len, n) == len >= n
BatchComplete(len, n) == len # 0 /\ len = n

\* compositing mode in force when the member at 0-based position i is drawn
CompositeOp(i, n) == IF i >= n - 1 THEN "destination-in" ELSE "source-over"

\* the forEach over the sorted batch: the members drawn before one raises
RECURSIVE DrawnPrefix(_, _, _)
DrawnPrefix(sorted, i, n) ==
  IF i > Len(sorted) THEN <<>>
  ELSE IF UnconditionalRaises(sorted[i]) THEN <<>>
  ELSE <<[elem |-> sorted[i], op |-> CompositeOp(i - 1, n)]>>
         \o DrawnPrefix(sorted, i + 1, n)

BatchRaises(sorted) == \E i \in 1..Len(sorted) : UnconditionalRaises(sorted[i])

NoCall == [elem |-> "none", masked |-> FALSE, count |-> 0, outcome |-> "none",
           mainDrawn |-> 0, offscreen |-> <<>>, batch |-> <<>>]

(***************************************************************************)
(* Init: nothing accumulated, first pass about to start.  At most          *)
(* MaxUnknown shapes carry a type outside the known set.                   *)
(***************************************************************************)
TypeTables ==
  { t \in [Elements -> KnownTypes \cup {UnknownType}] :
      /\ \A e \in Elements : t[e] \in {DefaultType(e), UnknownType}
      /\ Cardinality({ e \in Elements : t[e] = UnknownType }) <= MaxUnknown }

MaskInit ==
  /\ elemType \in TypeTables
  /\ orderKey \in IndexTables
  /\ maskedElementsMap = << >>
  /\ frame = 1
  /\ rendered = {}
  /\ mainDraws = [m \in MaskIds |-> 0]
  /\ lastCall = NoCall
  /\ pastUnion = {}
  /\ pastInter = Elements
  /\ composited = [m \in MaskIds |-> <<>>]
  /\ completedBefore = {}

(***************************************************************************)
(* renderElement(element, ...) on a tagged shape.                          *)
(***************************************************************************)
RenderMasked(e) ==
  LET m == clippingMaskId(e)
      pushed == Append(MapGet(m), e)
      n == cmGroupLength(e)
      sorted == SortMasked(pushed)
  IN
  /\ e \notin rendered
  /\ IsMaskTagged(e)
  /\ Len(pushed) <= MaxAccum
  /\ rendered' = rendered \cup {e}
  /\ IF BatchComplete(Len(pushed), n)
     THEN IF BatchRaises(sorted)
          THEN \* the exception leaves the (sorted in place) list in the map
               /\ maskedElementsMap' =
                    [k \in DOMAIN maskedElementsMap \cup {m} |->
                       IF k = m THEN sorted ELSE maskedElementsMap[k]]
               /\ mainDraws' = mainDraws
               /\ composited' = composited
               /\ lastCall' = [elem |-> e, masked |-> TRUE, count |-> Len(pushed),
                               outcome |-> "raised", mainDrawn |-> 0,
                               offscreen |-> DrawnPrefix(sorted, 1, n),
                               batch |-> sorted]
          ELSE /\ maskedElementsMap' =
                    [k \in DOMAIN maskedElementsMap \ {m} |-> maskedElementsMap[k]]
               /\ mainDraws' = [mainDraws EXCEPT ![m] = @ + 1]
               /\ composited' = [composited EXCEPT ![m] = sorted]
               /\ lastCall' = [elem |-> e, masked |-> TRUE, count |-> Len(pushed),
                               outcome |-> "composited", mainDrawn |-> 1,
                               offscreen |-> DrawnPrefix(sorted, 1, n),
                               batch |-> sorted]
     ELSE /\ maskedElementsMap' =
               [k \in DOMAIN maskedElementsMap \cup {m} |->
                  IF k = m THEN pushed ELSE maskedElementsMap[k]]
          /\ mainDraws' = mainDraws
          /\ composited' = composited
          /\ lastCall' = [elem |-> e, masked |-> TRUE, count |-> Len(pushed),
                          outcome |-> "accumulated", mainDrawn |-> 0,
                          offscreen |-> <<>>, batch |-> <<>>]
  /\ UNCHANGED <<elemType, orderKey, frame, pastUnion, pastInter, completedBefore>>
  /\ UNCHANGED notMaskVars

(***************************************************************************)
(* renderElement(element, ...) on an untagged shape: drawn directly.       *)
(***************************************************************************)
RenderUnmasked(e) ==
  /\ e \notin rendered
  /\ ~IsMaskTagged(e)
  /\ rendered' = rendered \cup {e}
  /\ lastCall' = [elem |-> e, masked |-> FALSE, count |-> 0,
                  outcome |-> IF UnconditionalRaises(e) THEN "raised" ELSE "drawn",
                  mainDrawn |-> IF UnconditionalRaises(e) THEN 0 ELSE 1,
                  offscreen |-> <<>>, batch |-> <<>>]
  /\ UNCHANGED <<elemType, orderKey, maskedElementsMap, frame, mainDraws,
                 pastUnion, pastInter, composited, completedBefore>>
  /\ UNCHANGED notMaskVars

(***************************************************************************)
(* The next static render pass starts.  Nothing in the renderer is reset:  *)
(* only the bookkeeping of the model changes.                              *)
(***************************************************************************)
NewFrame ==
  /\ frame < MaxFrames
  /\ frame' = frame + 1
  /\ rendered' = {}
  /\ mainDraws' = [m \in MaskIds |-> 0]
  /\ lastCall' = NoCall
  /\ pastUnion' = pastUnion \cup rendered
  /\ pastInter' = pastInter \cap rendered
  /\ completedBefore' = completedBefore \cup { m \in MaskIds : mainDraws[m] > 0 }
  /\ composited' = [m \in MaskIds |-> <<>>]
  /\ UNCHANGED <<elemType, orderKey, maskedElementsMap>>
  /\ UNCHANGED notMaskVars

AllTypesKnown == \A e \in Elements : elemType[e] \in KnownTypes

\* the compositor at rest, for the specifications of the other subsystems
MaskIdle ==
  /\ MaskInit
  /\ AllTypesKnown
  /\ orderKey["e2"] = <<97, 49>>

MaskNext ==
  \/ \E e \in Elements : RenderMasked(e)
  \/ \E e \in Elements : RenderUnmasked(e)
  \/ NewFrame

(***************************************************************************)
(* Bounds engine (element/bounds.ts).                                      *)
(*                                                                         *)
(* Coordinates are integers and every width and height is even, so that    *)
(* centres are integers.  Angles are counted in quarter turns, for which    *)
(* cos and sin are exactly 0, 1 or -1.                                     *)
(***************************************************************************)
ShapeIds == {"A", "T"}

MinVersion == 1

Cos(q) == CASE q % 4 = 0 -> 1 [] q % 4 = 1 -> 0 [] q % 4 = 2 -> -1 [] OTHER -> 0
Sin(q) == CASE q % 4 = 0 -> 0 [] q % 4 = 1 -> 1 [] q % 4 = 2 -> 0 [] OTHER -> -1

\* rotate(x, y, cx, cy, angle) of ../math
Rotate(x, y, cx, cy, q) ==
  << (x - cx) * Cos(q) - (y - cy) * Sin(q) + cx,
     (x - cx) * Sin(q) + (y - cy) * Cos(q) + cy >>

Abs(a) == IF a < 0 THEN -a ELSE a

SetMin(S) == CHOOSE a \in S : \A b \in S : a <= b
SetMax(S) == CHOOSE a \in S : \A b \in S : a >= b

Min4(a, b, c, d) == Min2(Min2(a, b), Min2(c, d))
Max4(a, b, c, d) == Max2(Max2(a, b), Max2(c, d))

isFreeDrawElement(el) == el.type = "freedraw"
isLinearElement(el) == el.type \in {"arrow", "line"}
isArrowElement(el) == el.type = "arrow"
isTextElement(el) == el.type = "text"
isBoundToContainer(el) == el.containerId # "" /\ isTextElement(el)

\* getBoundTextElement(element, elementsMap): the label, if the lookup has it
getBoundTextElement(sc, e, map) ==
  IF sc[e].boundText # "" /\ sc[e].boundText \in map THEN sc[e].boundText ELSE ""

\* getContainerElement(element, elementsMap)
getContainerElement(sc, e, map) ==
  IF sc[e].containerId # "" /\ sc[e].containerId \in map THEN sc[e].containerId ELSE ""

\* getBoundsFromPoints
getBoundsFromPoints(points) ==
  << SetMin({ points[i][1] : i \in 1..Len(points) }),
     SetMin({ points[i][2] : i \in 1..Len(points) }),
     SetMax({ points[i][1] : i \in 1..Len(points) }),
     SetMax({ points[i][2] : i \in 1..Len(points) }) >>

\* x1, y1, x2, y2, cx, cy from the points of a freedraw or linear shape
PointsAbsoluteCoords(el) ==
  LET b == getBoundsFromPoints(el.points)
      x1 == b[1] + el.x
      y1 == b[2] + el.y
      x2 == b[3] + el.x
      y2 == b[4] + el.y
  IN << x1, y1, x2, y2, (x1 + x2) \div 2, (y1 + y2) \div 2 >>

\* LinearElementEditor.getBoundTextElementPosition: the label is centred on
\* the midpoint of a two-point arrow
getBoundTextElementPosition(container, label) ==
  LET p == container.points
      midX == container.x + (p[1][1] + p[Len(p)][1]) \div 2
      midY == container.y + (p[1][2] + p[Len(p)][2]) \div 2
  IN [x |-> midX - label.width \div 2, y |-> midY - label.height \div 2]

getElementAbsoluteCoords(sc, e, map) ==
  LET el == sc[e]
      c == getContainerElement(sc, e, map)
      plain == << el.x, el.y, el.x + el.width, el.y + el.height,
                  el.x + el.width \div 2, el.y + el.height \div 2 >>
  IN
  IF isFreeDrawElement(el) THEN PointsAbsoluteCoords(el)
  ELSE IF isLinearElement(el) THEN PointsAbsoluteCoords(el)
  ELSE IF isTextElement(el) /\ c # "" /\ isArrowElement(sc[c])
    THEN LET coords == getBoundTextElementPosition(sc[c], el)
         IN << coords.x, coords.y, coords.x + el.width, coords.y + el.height,
               coords.x + el.width \div 2, coords.y + el.height \div 2 >>
  ELSE plain

\* min/max over four rotated points
BoundsOfFour(p1, p2, p3, p4) ==
  << Min4(p1[1], p2[1], p3[1], p4[1]), Min4(p1[2], p2[2], p3[2], p4[2]),
     Max4(p1[1], p2[1], p3[1], p4[1]), Max4(p1[2], p2[2], p3[2], p4[2]) >>

\* LinearElementEditor.getMinMaxXYWithBoundText: the union with the label box
getMinMaxXYWithBoundText(container, label, coords) ==
  LET pos == getBoundTextElementPosition(container, label)
  IN << Min2(coords[1], pos.x), Min2(coords[2], pos.y),
        Max2(coords[3], pos.x + label.width), Max2(coords[4], pos.y + label.height) >>

\* the curve of a linear shape passes through its points: the bound of its
\* path operations, each point put through transformXY
LinearCurveBounds(el, cx, cy) ==
  LET pts == [i \in 1..Len(el.points) |->
                Rotate(el.x + el.points[i][1], el.y + el.points[i][2], cx, cy, el.angle)]
  IN getBoundsFromPoints(pts)

getLinearElementRotatedBounds(sc, e, cx, cy, map) ==
  LET el == sc[e]
      label == getBoundTextElement(sc, e, map)
      own == IF Len(el.points) < 2
               THEN LET p == Rotate(el.x + el.points[1][1], el.y + el.points[1][2],
                                    cx, cy, el.angle)
                    IN << p[1], p[2], p[1], p[2] >>
               ELSE LinearCurveBounds(el, cx, cy)
  IN IF label # "" THEN getMinMaxXYWithBoundText(el, sc[label], own) ELSE own

\* the ellipse branch: Math.hypot with one leg zero is the other leg's size
EllipseBounds(x1, y1, x2, y2, cx, cy, q) ==
  LET w == (x2 - x1) \div 2
      h == (y2 - y1) \div 2
      ww == IF Sin(q) = 0 THEN Abs(w * Cos(q)) ELSE Abs(h * Sin(q))
      hh == IF Sin(q) = 0 THEN Abs(h * Cos(q)) ELSE Abs(w * Sin(q))
  IN << cx - ww, cy - hh, cx + ww, cy + hh >>

\* a diamond branch that forgets the left and right vertices
DiamondBoundsTopBottom(x1, y1, x2, y2, cx, cy, q) ==
  BoundsOfFour(Rotate(cx, y1, cx, cy, q), Rotate(cx, y2, cx, cy, q),
               Rotate(cx, y1, cx, cy, q), Rotate(cx, y2, cx, cy, q))
DiamondBounds(x1, y1, x2, y2, cx, cy, q) ==
  BoundsOfFour(Rotate(cx, y1, cx, cy, q), Rotate(cx, y2, cx, cy, q),
               Rotate(x1, cy, cx, cy, q), Rotate(x2, cy, cx, cy, q))

RectBounds(x1, y1, x2, y2, cx, cy, q) ==
  BoundsOfFour(Rotate(x1, y1, cx, cy, q), Rotate(x1, y2, cx, cy, q),
               Rotate(x2, y2, cx, cy, q), Rotate(x2, y1, cx, cy, q))

\* ElementBounds.calculateBounds
calculateBounds(sc, e, map) ==
  LET el == sc[e]
      c == getElementAbsoluteCoords(sc, e, map)
      x1 == c[1]
      y1 == c[2]
      x2 == c[3]
      y2 == c[4]
      cx == c[5]
      cy == c[6]
  IN
  IF isFreeDrawElement(el)
    THEN LET pts == [i \in 1..Len(el.points) |->
                       Rotate(el.points[i][1], el.points[i][2],
                              cx - el.x, cy - el.y, el.angle)]
             b == getBoundsFromPoints(pts)
         IN << b[1] + el.x, b[2] + el.y, b[3] + el.x, b[4] + el.y >>
  ELSE IF isLinearElement(el) THEN getLinearElementRotatedBounds(sc, e, cx, cy, map)
  ELSE IF el.type = "diamond" THEN DiamondBounds(x1, y1, x2, y2, cx, cy, el.angle)
  ELSE IF el.type = "ellipse" THEN EllipseBounds(x1, y1, x2, y2, cx, cy, el.angle)
  ELSE RectBounds(x1, y1, x2, y2, cx, cy, el.angle)

(***************************************************************************)
(* ElementBounds.getBounds and the cache.                                  *)
(***************************************************************************)
NoEntry == [present |-> FALSE, version |-> 0, bounds |-> <<0, 0, 0, 0>>, ref |-> 0]

CacheGet(cache, e) ==
  IF e \in DOMAIN cache
    THEN [present |-> TRUE, version |-> cache[e].version,
          bounds |-> cache[e].bounds, ref |-> cache[e].ref]
    ELSE NoEntry

CacheSet(cache, e, entry) ==
  [k \in DOMAIN cache \cup {e} |-> IF k = e THEN entry ELSE cache[k]]

\* the test that serves the cached array
CacheHitIgnoringLabel(entry, el) ==
  entry.present /\ entry.version # 0 /\ entry.version = el.version
CacheHitIgnoringVersion(entry, el) ==
  entry.present /\ entry.version # 0 /\ ~isBoundToContainer(el)
CacheHit(entry, el) ==
  /\ entry.present
  /\ entry.version # 0
  /\ entry.version = el.version
  /\ ~isBoundToContainer(el)

\* the identity of the array a computation allocates: it differs from the
\* array the cache holds for the shape, which is the only other array of the
\* shape still reachable (a caller's copy of an older array aside)
FreshRef(entry) == IF entry.present /\ entry.ref = 1 THEN 2 ELSE 1

\* one getBounds call: the cache after it, the array returned and its identity
GetBoundsStep(sc, cache, e, map) ==
  LET entry == CacheGet(cache, e)
  IN IF CacheHit(entry, sc[e])
       THEN [cache |-> cache, bounds |-> entry.bounds, ref |-> entry.ref]
       ELSE LET b == calculateBounds(sc, e, map)
                r == FreshRef(entry)
            IN [cache |-> CacheSet(cache, e, [version |-> sc[e].version,
                                               bounds |-> b, ref |-> r]),
                bounds |-> b, ref |-> r]

UnionBounds(a, b) ==
  << Min2(a[1], b[1]), Min2(a[2], b[2]), Max2(a[3], b[3]), Max2(a[4], b[4]) >>

\* minX, minY, maxX, maxY after one more shape; <<>> stands for the start
Accumulate(acc, b) == IF acc = << >> THEN b ELSE UnionBounds(acc, b)

\* getCommonBounds: the forEach over the list, with arrayToMap(elements) as
\* the lookup; acc is the running [minX, minY, maxX, maxY] or <<>> at the start
RECURSIVE CommonFold(_, _, _, _, _)
CommonFold(sc, cache, list, i, acc) ==
  IF i > Len(list) THEN [cache |-> cache, bounds |-> acc]
  ELSE CommonFold(sc, GetBoundsStep(sc, cache, list[i], SeqToSet(list)).cache,
                  list, i + 1,
                  Accumulate(acc, GetBoundsStep(sc, cache, list[i], SeqToSet(list)).bounds))

getCommonBounds(sc, cache, list) ==
  IF Len(list) = 0
    THEN [cache |-> cache, bounds |-> <<0, 0, 0, 0>>]
    ELSE CommonFold(sc, cache, list, 1, <<>>)

(***************************************************************************)
(* The scene of the bounds model: an arrow A with a bound label T.  The    *)
(* arrow's end point and the label's width are edited.                     *)
(***************************************************************************)
InitialScene ==
  [e \in ShapeIds |->
     CASE e = "A" -> [type |-> "arrow", x |-> 0, y |-> 0, width |-> 8, height |-> 0,
                      angle |-> 0, version |-> MinVersion,
                      points |-> << <<0, 0>>, <<8, 0>> >>,
                      containerId |-> "", boundText |-> "T"]
       [] OTHER   -> [type |-> "text", x |-> 2, y |-> -1, width |-> 4, height |-> 2,
                      angle |-> 0, version |-> MinVersion, points |-> <<>>,
                      containerId |-> "A", boundText |-> ""]]

NoBCall == [op |-> "none", elem |-> "", list |-> <<>>, bounds |-> <<0, 0, 0, 0>>,
            ref |-> 0, prevRef |-> 0, mutatedAny |-> FALSE, mutatedSelf |-> FALSE]

BoundsInit ==
  /\ scene = InitialScene
  /\ boundsCache = << >>
  /\ bcall = NoBCall
  /\ lastRet = [e \in ShapeIds |-> 0]
  /\ dirtyAny = [e \in ShapeIds |-> FALSE]
  /\ dirtySelf = [e \in ShapeIds |-> FALSE]
  /\ partialUsed = FALSE

\* the values a mutation may write
Widths == {4, 12}
EndPoints == {8, 2}

\* mutateElement: one shape changes and its version alone is bumped
Mutated(el, field, v) ==
  CASE field = "width" -> [el EXCEPT !.width = v, !.version = @ + 1]
    [] OTHER           -> [el EXCEPT !.points = << <<0, 0>>, <<v, 0>> >>,
                                     !.width = v, !.version = @ + 1]

Mutate(e, field, v) ==
  /\ scene[e].version < MaxVersion
  /\ \/ field = "width" /\ ~isLinearElement(scene[e]) /\ v \in Widths
     \/ field = "end" /\ isLinearElement(scene[e]) /\ v \in EndPoints
  /\ Mutated(scene[e], field, v) # [scene[e] EXCEPT !.version = @ + 1]
  /\ scene' = [scene EXCEPT ![e] = Mutated(scene[e], field, v)]
  /\ bcall' = NoBCall
  /\ dirtyAny' = [k \in ShapeIds |-> lastRet[k] # 0]
  /\ dirtySelf' = [dirtySelf EXCEPT ![e] = lastRet[e] # 0]
  /\ UNCHANGED <<boundsCache, lastRet, partialUsed>>
  /\ UNCHANGED notBoundsVars

\* getElementBounds(element, elementsMap) / ElementBounds.getBounds
GetBounds(e, map) ==
  LET r == GetBoundsStep(scene, boundsCache, e, map)
  IN
  /\ e \in map
  /\ boundsCache' = r.cache
  /\ bcall' = [op |-> "getBounds", elem |-> e, list |-> <<e>>,
               bounds |-> r.bounds, ref |-> r.ref,
               prevRef |-> lastRet[e], mutatedAny |-> dirtyAny[e],
               mutatedSelf |-> dirtySelf[e]]
  /\ lastRet' = [lastRet EXCEPT ![e] = r.ref]
  /\ dirtyAny' = [dirtyAny EXCEPT ![e] = FALSE]
  /\ dirtySelf' = [dirtySelf EXCEPT ![e] = FALSE]
  /\ partialUsed' = (partialUsed \/ map # ShapeIds)
  /\ UNCHANGED scene
  /\ UNCHANGED notBoundsVars

\* the lists getCommonBounds is called with: no shape twice
ShapeLists ==
  { l \in UNION { [1..n -> ShapeIds] : n \in 0..2 } :
      \A i, j \in 1..Len(l) : i # j => l[i] # l[j] }

GetCommonBounds(list) ==
  LET r == getCommonBounds(scene, boundsCache, list)
      ids == SeqToSet(list)
  IN
  /\ boundsCache' = r.cache
  /\ bcall' = [op |-> "getCommonBounds", elem |-> "", list |-> list,
               bounds |-> r.bounds, ref |-> 0,
               prevRef |-> 0, mutatedAny |-> FALSE, mutatedSelf |-> FALSE]
  /\ lastRet' = [e \in ShapeIds |-> IF e \in ids THEN r.cache[e].ref ELSE lastRet[e]]
  /\ dirtyAny' = [e \in ShapeIds |-> IF e \in ids THEN FALSE ELSE dirtyAny[e]]
  /\ dirtySelf' = [e \in ShapeIds |-> IF e \in ids THEN FALSE ELSE dirtySelf[e]]
  /\ partialUsed' = (partialUsed \/ (list # <<>> /\ ids # ShapeIds))
  /\ UNCHANGED scene
  /\ UNCHANGED notBoundsVars

BoundsNext ==
  \/ \E e \in ShapeIds, field \in {"width", "end"}, v \in Widths \cup EndPoints :
       Mutate(e, field, v)
  \/ \E e \in ShapeIds : GetBounds(e, ShapeIds)
  \/ \E list \in ShapeLists : GetCommonBounds(list)

(***************************************************************************)
(* getBounds on one shape of a kind calculateBounds has a branch for.      *)
(***************************************************************************)
CalcTypes == {"rectangle", "image", "diamond", "ellipse"}
CalcXs == {0, 6}
CalcYs == {0, -4}
\* a width or height is negative for a shape drawn right to left or upwards
CalcWidths == {-4, 0, 4, 100}
CalcHeights == {-2, 2, 50}
QuarterTurns == 0..3

CalcShapes ==
  { [type |-> t, x |-> x, y |-> y, width |-> w, height |-> h, angle |-> q,
     version |-> MinVersion, points |-> <<>>, containerId |-> "", boundText |-> ""] :
      t \in CalcTypes, x \in CalcXs, y \in CalcYs, w \in CalcWidths,
      h \in CalcHeights, q \in QuarterTurns }

CalcIdle ==
  /\ calcShape = CHOOSE sh \in CalcShapes :
                    sh.type = "rectangle" /\ sh.x = 0 /\ sh.y = 0 /\ sh.width = 4
                    /\ sh.height = 2 /\ sh.angle = 0
  /\ calcOut = <<>>

CalcInit ==
  /\ calcShape \in CalcShapes
  /\ calcOut = <<>>

\* the first getBounds call on the shape: the cache holds nothing for it
CalcGetBounds ==
  /\ calcOut = <<>>
  /\ calcOut' = GetBoundsStep("S" :> calcShape, << >>, "S", {"S"}).bounds
  /\ UNCHANGED calcShape
  /\ UNCHANGED notCalcVars

CalcNext == CalcGetBounds

(***************************************************************************)
(* The transform-handle hit test: resizeTest.                              *)
(***************************************************************************)
Devices == {"desktop", "mobile"}
Zooms == {1, 2}

\* fixed pixel sizes of ../constants and ./transformHandles
SIDE_RESIZING_THRESHOLD == 2
HandleSize == 2

\* canResizeFromSides(device)
canResizeFromSides(device) == device = "desktop"

\* getOmitSidesForDevice(device): the handle roles a device does without
getOmitSidesForDevice(device) ==
  IF device = "mobile" THEN {"n", "s", "w", "e"} ELSE {}

isInsideTransformHandle(h, x, y) ==
  x >= h[1] /\ x <= h[1] + h[3] /\ y >= h[2] /\ y <= h[2] + h[4]

\* a handle square turned with the shape about the shape's centre
RotateRect(h, cx, cy, q) ==
  LET a == Rotate(h[1], h[2], cx, cy, q)
      b == Rotate(h[1] + h[3], h[2] + h[4], cx, cy, q)
  IN << Min2(a[1], b[1]), Min2(a[2], b[2]), Abs(a[1] - b[1]), Abs(a[2] - b[2]) >>

\* the square of one handle role around the box x1, y1, x2, y2 with centre
\* cx, cy, for a handle size hs
HandleRect(key, c, hs) ==
  CASE key = "nw" -> << c[1] - hs, c[2] - hs, hs, hs >>
    [] key = "ne" -> << c[3], c[2] - hs, hs, hs >>
    [] key = "sw" -> << c[1] - hs, c[4], hs, hs >>
    [] key = "se" -> << c[3], c[4], hs, hs >>
    [] key = "n"  -> << c[5] - hs \div 2, c[2] - hs, hs, hs >>
    [] key = "s"  -> << c[5] - hs \div 2, c[4], hs, hs >>
    [] key = "w"  -> << c[1] - hs, c[6] - hs \div 2, hs, hs >>
    [] OTHER      -> << c[3], c[6] - hs \div 2, hs, hs >>

HandleKeys == << "nw", "ne", "sw", "se", "n", "s", "w", "e" >>
CropHandleKeys == << "nw", "ne", "sw", "se" >>

RECURSIVE HandlesFor(_, _, _, _, _, _)
HandlesFor(keys, omit, c, hs, q, i) ==
  IF i > Len(keys) THEN << >>
  ELSE (IF keys[i] \in omit THEN << >>
        ELSE << [key |-> keys[i],
                 rect |-> RotateRect(HandleRect(keys[i], c, hs), c[5], c[6], q)] >>)
       \o HandlesFor(keys, omit, c, hs, q, i + 1)

\* the shape of the hit test as a one-shape scene for getElementAbsoluteCoords
RtCoords(in) == getElementAbsoluteCoords("S" :> in.element, "S", {"S"})

\* getTransformHandles without its rotation entry, in key order
getTransformHandles(in) ==
  HandlesFor(HandleKeys, getOmitSidesForDevice(in.device), RtCoords(in),
             HandleSize \div in.zoom, in.element.angle, 1)

\* the rotation entry of getTransformHandles: a square above the top edge at
\* the distance in.rotGap, or <<>> when the entry is left out
rotationTransformHandle(in) ==
  IF ~in.hasRotation THEN << >>
  ELSE LET c == RtCoords(in)
           hs == HandleSize \div in.zoom
       IN RotateRect(<< c[5] - hs \div 2, c[2] - hs - in.rotGap, hs, hs >>,
                     c[5], c[6], in.element.angle)

\* the crop rectangle of an image: x1, y1, x2, y2 and the shape's centre
CropCoords(in) ==
  LET el == in.element
      c == RtCoords(in)
      nx1 == c[1] + el.cropProperties.x
      ny1 == c[2] + el.cropProperties.y
  IN << nx1, ny1, nx1 + el.cropProperties.width, ny1 + el.cropProperties.height,
        el.x + el.width \div 2, el.y + el.height \div 2 >>

HasCropWindow(el) == el.hasCropFields /\ el.isRenderCropWindow

\* getCropTransformHandles without its rotation entry: the corner handles of
\* the crop rectangle of an image whose crop window is shown
getCropTransformHandles(in) ==
  IF HasCropWindow(in.element)
    THEN HandlesFor(CropHandleKeys, getOmitSidesForDevice(in.device), CropCoords(in),
                    HandleSize \div in.zoom, in.element.angle, 1)
    ELSE << >>

\* pointOnLine(point, line, threshold) of utils/geometry: the point lies
\* within the threshold of the segment from a to b, a side of a box turned by
\* quarter turns
pointOnLine(x, y, a, b, threshold) ==
  LET lox == Min2(a[1], b[1])
      hix == Max2(a[1], b[1])
      loy == Min2(a[2], b[2])
      hiy == Max2(a[2], b[2])
      dx == IF x < lox THEN lox - x ELSE IF x > hix THEN x - hix ELSE 0
      dy == IF y < loy THEN loy - y ELSE IF y > hiy THEN y - hiy ELSE 0
  IN dx * dx + dy * dy <= threshold * threshold

\* getSelectionBorders: the four sides in the order n, e, s, w
getSelectionBorders(p1, p2, cx, cy, q) ==
  LET topLeft == Rotate(p1[1], p1[2], cx, cy, q)
      topRight == Rotate(p2[1], p1[2], cx, cy, q)
      bottomLeft == Rotate(p1[1], p2[2], cx, cy, q)
      bottomRight == Rotate(p2[1], p2[2], cx, cy, q)
  IN << [dir |-> "n", a |-> topLeft, b |-> topRight],
        [dir |-> "e", a |-> topRight, b |-> bottomRight],
        [dir |-> "s", a |-> bottomRight, b |-> bottomLeft],
        [dir |-> "w", a |-> bottomLeft, b |-> topLeft] >>

\* the first handle of the list the pointer is inside, "" if there is none
RECURSIVE FirstInside(_, _, _, _)
FirstInside(handles, x, y, i) ==
  IF i > Len(handles) THEN ""
  ELSE IF isInsideTransformHandle(handles[i].rect, x, y) THEN handles[i].key
  ELSE FirstInside(handles, x, y, i + 1)

\* the first side the pointer is on, "" if there is none
RECURSIVE FirstSide(_, _, _, _, _)
FirstSide(sides, x, y, spacing, i) ==
  IF i > Len(sides) THEN ""
  ELSE IF pointOnLine(x, y, sides[i].a, sides[i].b, spacing) THEN sides[i].dir
  ELSE FirstSide(sides, x, y, spacing, i + 1)

RotationHit(in, x, y) ==
  /\ rotationTransformHandle(in) # << >>
  /\ isInsideTransformHandle(rotationTransformHandle(in), x, y)

\* SPACING = SIDE_RESIZING_THRESHOLD / zoom.value
Spacing(in) == SIDE_RESIZING_THRESHOLD \div in.zoom

\* the sides of the bounds widened by SPACING
BoundsSides(in) ==
  LET c == RtCoords(in)
      SPACING == Spacing(in)
  IN getSelectionBorders(<< c[1] - SPACING, c[2] - SPACING >>,
                         << c[3] + SPACING, c[4] + SPACING >>,
                         c[5], c[6], in.element.angle)

\* the sides of the crop rectangle
CropSides(in) ==
  LET n == CropCoords(in)
  IN getSelectionBorders(<< n[1], n[2] >>, << n[3], n[4] >>,
                         n[5], n[6], in.element.angle)

\* a side test that does not look at the number of points
SideHitOfAnyShape(in, x, y) ==
  FirstSide(BoundsSides(in), x, y, Spacing(in), 1)

\* the side test on the bounds widened by SPACING
SideHit(in, x, y) ==
  IF isLinearElement(in.element) /\ Len(in.element.points) <= 2 THEN ""
  ELSE FirstSide(BoundsSides(in), x, y, Spacing(in), 1)

\* the side test on the crop rectangle
CropSideHit(in, x, y) ==
  IF ~HasCropWindow(in.element) THEN ""
  ELSE FirstSide(CropSides(in), x, y, Spacing(in), 1)

\* a hit test that tries the sides before the handle squares
ResizeTestTailSidesFirst(in, x, y) ==
  LET handle == FirstInside(getTransformHandles(in), x, y, 1)
      cropHandle == FirstInside(getCropTransformHandles(in), x, y, 1)
  IN IF canResizeFromSides(in.device) /\ SideHit(in, x, y) # "" THEN SideHit(in, x, y)
     ELSE IF canResizeFromSides(in.device) /\ CropSideHit(in, x, y) # ""
       THEN CropSideHit(in, x, y)
     ELSE IF handle # "" THEN handle
     ELSE IF cropHandle # "" THEN cropHandle
     ELSE "false"

\* resizeTest past its rotation test: handles, crop handles, sides, crop sides
ResizeTestTail(in, x, y) ==
  LET handle == FirstInside(getTransformHandles(in), x, y, 1)
      cropHandle == FirstInside(getCropTransformHandles(in), x, y, 1)
  IN IF handle # "" THEN handle
     ELSE IF cropHandle # "" THEN cropHandle
     ELSE IF ~canResizeFromSides(in.device) THEN "false"
     ELSE IF SideHit(in, x, y) # "" THEN SideHit(in, x, y)
     ELSE IF CropSideHit(in, x, y) # "" THEN CropSideHit(in, x, y)
     ELSE "false"

\* CropWindowResizeTest: crop corner handles, then the crop rectangle's sides
CropWindowResizeTest(in, x, y) ==
  LET cropHandle == FirstInside(getCropTransformHandles(in), x, y, 1)
  IN IF ~in.selected THEN "false"
     ELSE IF cropHandle # "" THEN cropHandle
     ELSE IF canResizeFromSides(in.device) /\ CropSideHit(in, x, y) # ""
       THEN CropSideHit(in, x, y)
     ELSE "false"

\* a hit test that does not look at the selection
resizeTestOfAnyShape(in, x, y) ==
  IF RotationHit(in, x, y) THEN "rotation"
  ELSE ResizeTestTail(in, x, y)
\* a hit test that looks at the rotation handle last
resizeTestRotationLast(in, x, y) ==
  IF ~in.selected THEN "false"
  ELSE IF ResizeTestTail(in, x, y) # "false" THEN ResizeTestTail(in, x, y)
  ELSE IF RotationHit(in, x, y) THEN "rotation"
  ELSE "false"
resizeTest(in, x, y) ==
  IF ~in.selected THEN "false"
  ELSE IF RotationHit(in, x, y) THEN "rotation"
  ELSE ResizeTestTail(in, x, y)

(***************************************************************************)
(* The shapes, devices and pointer positions of the hit-test model.  The   *)
(* shape's box is x 4..12, y 4..8 before it is turned.                     *)
(***************************************************************************)
NoCrop == [x |-> 0, y |-> 0, width |-> 0, height |-> 0]

ResizeShape(kind, q) ==
  [type |-> CASE kind \in {"image", "cropImage"} -> "image"
              [] kind \in {"line2", "line3"} -> "line"
              [] OTHER -> "rectangle",
   x |-> 4, y |-> 4, width |-> 8, height |-> 4, angle |-> q,
   version |-> MinVersion,
   points |-> CASE kind = "line2" -> << <<0, 0>>, <<8, 4>> >>
                [] kind = "line3" -> << <<0, 0>>, <<4, 4>>, <<8, 0>> >>
                [] OTHER -> << >>,
   containerId |-> "", boundText |-> "",
   hasCropFields |-> kind \in {"image", "cropImage"},
   isRenderCropWindow |-> kind = "cropImage",
   cropProperties |-> IF kind = "cropImage"
                        THEN [x |-> 2, y |-> 0, width |-> 4, height |-> 4]
                        ELSE NoCrop]

ShapeKinds == {"rectangle", "image", "cropImage", "line2", "line3"}
RotGaps == {0, 2}
PointerXs == {3, 6, 8, 10, 13}
PointerYs == {0, 2, 3, 4, 6, 9}

NoRt == [called |-> FALSE, x |-> 0, y |-> 0, result |-> "false"]

ResizeInputs ==
  { [selected |-> FALSE, element |-> ResizeShape(kind, q), device |-> d, zoom |-> z,
     hasRotation |-> r, rotGap |-> g] :
      kind \in ShapeKinds, q \in {0, 1}, d \in Devices, z \in Zooms,
      r \in BOOLEAN, g \in RotGaps }

ResizeIdle ==
  /\ rtIn = [selected |-> FALSE, element |-> ResizeShape("rectangle", 0),
             device |-> "desktop", zoom |-> 1, hasRotation |-> TRUE, rotGap |-> 2]
  /\ rtOut = NoRt
  /\ cwOut = NoRt

ResizeInit ==
  /\ rtIn \in { in \in ResizeInputs : ~in.hasRotation => in.rotGap = 0 }
  /\ rtOut = NoRt
  /\ cwOut = NoRt

\* the shape is selected: appState.selectedElementIds gains its id
Select ==
  /\ ~rtIn.selected
  /\ rtIn' = [rtIn EXCEPT !.selected = TRUE]
  /\ rtOut' = NoRt
  /\ cwOut' = NoRt
  /\ UNCHANGED notResizeVars

Deselect ==
  /\ rtIn.selected
  /\ rtIn' = [rtIn EXCEPT !.selected = FALSE]
  /\ rtOut' = NoRt
  /\ cwOut' = NoRt
  /\ UNCHANGED notResizeVars

ResizeTest(x, y) ==
  /\ rtOut' = [called |-> TRUE, x |-> x, y |-> y, result |-> resizeTest(rtIn, x, y)]
  /\ cwOut' = NoRt
  /\ UNCHANGED rtIn
  /\ UNCHANGED notResizeVars

CropResizeTest(x, y) ==
  /\ cwOut' = [called |-> TRUE, x |-> x, y |-> y,
               result |-> CropWindowResizeTest(rtIn, x, y)]
  /\ rtOut' = NoRt
  /\ UNCHANGED rtIn
  /\ UNCHANGED notResizeVars

ResizeNext ==
  \/ Select
  \/ Deselect
  \/ \E x \in PointerXs, y \in PointerYs : ResizeTest(x, y)
  \/ \E x \in PointerXs, y \in PointerYs : CropResizeTest(x, y)

(***************************************************************************)
(* The raster cache of one shape: generateElementWithCanvas.               *)
(***************************************************************************)
NoRaster == [present |-> FALSE, zoomValue |-> 0, theme |-> "", boundTextElementVersion |-> 0,
             containingFrameOpacity |-> 0, canvas |-> 0]

\* getBoundTextElement(element, elementsMap)?.version || null, 0 for null
BoundTextVersionOrNull(env) == IF env.hasLabel THEN env.labelVersion ELSE 0

\* getContainingFrame(element, elementsMap)?.opacity || 100
FrameOpacityOr100(env) ==
  IF env.hasFrame /\ env.frameOpacity # 0 THEN env.frameOpacity ELSE 100

\* the test of generateElementWithCanvas
ShouldRegenerate(env, prev) ==
  \/ env.forceRedraw
  \/ ~prev.present
  \/ (prev.present /\ prev.zoomValue # env.zoom /\ ~env.shouldCacheIgnoreZoom)
  \/ prev.theme # env.theme
  \/ prev.boundTextElementVersion # BoundTextVersionOrNull(env)
  \/ prev.containingFrameOpacity # FrameOpacityOr100(env)

\* generateElementCanvas: the entry built from the current inputs, on a canvas
\* that is not the canvas of the entry it replaces
generateElementCanvas(env, prev) ==
  [present |-> TRUE, zoomValue |-> env.zoom, theme |-> env.theme,
   boundTextElementVersion |-> BoundTextVersionOrNull(env),
   containingFrameOpacity |-> FrameOpacityOr100(env),
   canvas |-> IF prev.present /\ prev.canvas = 1 THEN 2 ELSE 1]

RasterInit ==
  /\ rasterEnv = [zoom |-> 1, theme |-> "light", shouldCacheIgnoreZoom |-> FALSE,
                  hasLabel |-> FALSE, labelVersion |-> MinVersion,
                  hasFrame |-> FALSE, frameOpacity |-> 100, forceRedraw |-> FALSE]
  /\ rasterCache = NoRaster
  /\ rasterCall = [called |-> FALSE, prev |-> NoRaster, returned |-> NoRaster]

\* the values of rasterEnv's fields
RasterValues(field) ==
  CASE field = "zoom" -> {1, 2}
    [] field = "theme" -> {"light", "dark"}
    [] field = "labelVersion" -> {MinVersion, MinVersion + 1}
    [] field = "frameOpacity" -> {0, 50, 100}
    [] OTHER -> BOOLEAN

\* the view state, the bound label, the containing frame or the shape's
\* redraw flag changes between two renders
SetRasterInput(field, v) ==
  /\ rasterEnv[field] # v
  /\ rasterEnv' = [rasterEnv EXCEPT ![field] = v]
  /\ rasterCall' = [called |-> FALSE, prev |-> NoRaster, returned |-> NoRaster]
  /\ UNCHANGED <<rasterCache, oldVars, pureCall, throttleVars, passCall>>

generateElementWithCanvas ==
  /\ rasterCache' = IF ShouldRegenerate(rasterEnv, rasterCache)
                      THEN generateElementCanvas(rasterEnv, rasterCache)
                      ELSE rasterCache
  /\ rasterCall' = [called |-> TRUE, prev |-> rasterCache, returned |-> rasterCache']
  /\ UNCHANGED <<rasterEnv, oldVars, pureCall, throttleVars, passCall>>

RasterNext ==
  \/ \E field \in DOMAIN rasterEnv :
       \E v \in RasterValues(field) : SetRasterInput(field, v)
  \/ generateElementWithCanvas

(***************************************************************************)
(* cappedElementCanvasSize, on integer sizes and rational zoom values      *)
(* <<numerator, denominator>>.  A scale is [n, d, root]: n/d, or           *)
(* sqrt(n/d) when root.                                                    *)
(***************************************************************************)
AREA_LIMIT == 16777216

WIDTH_HEIGHT_LIMIT == 32767

\* a/b < c/d for a, c >= 0 and b, d > 0, without forming a*d or b*c
RECURSIVE RatLess(_, _, _, _)
RatLess(a, b, c, d) ==
  IF a \div b # c \div d THEN a \div b < c \div d
  ELSE IF c % d = 0 THEN FALSE
  ELSE IF a % b = 0 THEN TRUE
  ELSE RatLess(d, c % d, b, a % b)

\* Math.floor(a * b / c) for a, b >= 0 and c > 0, without forming a*b
MulDivFloor(a, b, c) == (a \div c) * b + ((a % c) * b) \div c

\* Math.floor(Math.sqrt(x)) for lo <= sqrt(x) < hi + 1
RECURSIVE FloorSqrt(_, _, _)
FloorSqrt(lo, hi, x) ==
  IF lo >= hi THEN lo
  ELSE IF ((lo + hi + 1) \div 2) * ((lo + hi + 1) \div 2) <= x
    THEN FloorSqrt((lo + hi + 1) \div 2, hi, x)
    ELSE FloorSqrt(lo, ((lo + hi + 1) \div 2) - 1, x)

\* Math.floor(a * Math.sqrt(AREA_LIMIT / (a * b))) for a and b of one sign:
\* the floor of sqrt(AREA_LIMIT * a / b), or of its negation when a < 0
FloorAreaScaled(a, b) ==
  LET k == FloorSqrt(0, 46340, MulDivFloor(AREA_LIMIT, Abs(a), Abs(b)))
      exact == /\ k * k = MulDivFloor(AREA_LIMIT, Abs(a), Abs(b))
               /\ ((AREA_LIMIT % Abs(b)) * Abs(a)) % Abs(b) = 0
  IN IF a > 0 THEN k ELSE IF exact THEN -k ELSE -(k + 1)

\* Math.floor(a * n / d) for a scale n/d, d # 0
FloorScaled(a, n, d) == IF d > 0 THEN (a * n) \div d ELSE (-(a * n)) \div (-d)

cappedElementCanvasSizeUncappedArea(elementWidth, elementHeight, devicePixelRatio, padding, zoom) ==
  LET width == elementWidth * devicePixelRatio + padding * 2
      height == elementHeight * devicePixelRatio + padding * 2
      overDim == \/ width * zoom[1] > WIDTH_HEIGHT_LIMIT * zoom[2]
                 \/ height * zoom[1] > WIDTH_HEIGHT_LIMIT * zoom[2]
      m == IF width > 0 /\ height > 0 THEN Max2(width, height) ELSE Min2(width, height)
      scale == IF overDim THEN <<WIDTH_HEIGHT_LIMIT, m>> ELSE zoom
  IN [width |-> FloorScaled(width, scale[1], scale[2]),
      height |-> FloorScaled(height, scale[1], scale[2]),
      scale |-> [n |-> scale[1], d |-> scale[2], root |-> FALSE],
      overDim |-> overDim, overArea |-> FALSE]

cappedElementCanvasSize(elementWidth, elementHeight, devicePixelRatio, padding, zoom) ==
  LET width == elementWidth * devicePixelRatio + padding * 2
      height == elementHeight * devicePixelRatio + padding * 2
      overDim == \/ width * zoom[1] > WIDTH_HEIGHT_LIMIT * zoom[2]
                 \/ height * zoom[1] > WIDTH_HEIGHT_LIMIT * zoom[2]
      \* Math.min(LIMIT / width, LIMIT / height) is LIMIT / m
      m == IF width > 0 /\ height > 0 THEN Max2(width, height) ELSE Min2(width, height)
      scale == IF overDim THEN <<WIDTH_HEIGHT_LIMIT, m>> ELSE zoom
      \* width * height * scale * scale > AREA_LIMIT
      overArea ==
        IF width * height <= 0 THEN FALSE
        ELSE IF overDim
          THEN RatLess(AREA_LIMIT, WIDTH_HEIGHT_LIMIT,
                       Min2(width, height) * WIDTH_HEIGHT_LIMIT, Max2(width, height))
          ELSE width * height > (AREA_LIMIT * zoom[2] * zoom[2]) \div (zoom[1] * zoom[1])
  IN IF overArea
       THEN [width |-> FloorAreaScaled(width, height),
             height |-> FloorAreaScaled(height, width),
             scale |-> [n |-> AREA_LIMIT, d |-> width * height, root |-> TRUE],
             overDim |-> overDim, overArea |-> TRUE]
       ELSE [width |-> FloorScaled(width, scale[1], scale[2]),
             height |-> FloorScaled(height, scale[1], scale[2]),
             scale |-> [n |-> scale[1], d |-> scale[2], root |-> FALSE],
             overDim |-> overDim, overArea |-> FALSE]

ElementSizes == {-5000, -4000, -100, 0, 100, 300, 5000, 20000}

ZoomValues == {<<1, 10>>, <<1, 2>>, <<1, 1>>, <<2, 1>>, <<30, 1>>}

PureInit == pureCall = [op |-> "none"]

CappedElementCanvasSize ==
  \E w \in ElementSizes, h \in ElementSizes, dpr \in {1, 2}, zoom \in ZoomValues :
    /\ pureCall.op = "none"
    /\ pureCall' = [op |-> "cappedElementCanvasSize",
                    arg |-> [width |-> w, height |-> h, devicePixelRatio |-> dpr, zoom |-> zoom],
                    result |-> cappedElementCanvasSize(w, h, dpr, 20, zoom)]
    /\ UNCHANGED <<oldVars, rasterVars, throttleVars, passCall>>

(***************************************************************************)
(* getCursorForResizingElement.  Angles are whole eighths of a turn, so    *)
(* that Math.round(angle / (Math.PI / 4)) is the number itself; cursors    *)
(* are indexed from 1, "" stands for null and undefined.                   *)
(***************************************************************************)
RESIZE_CURSORS == <<"ns", "nesw", "ew", "nwse">>

Sign(v) == IF v > 0 THEN 1 ELSE IF v < 0 THEN -1 ELSE 0

\* (index + a) % RESIZE_CURSORS.length keeps the sign of index + a: a
\* negative remainder is no index of the array
rotateResizeCursor(cursor, a) ==
  LET at == CHOOSE i \in 1..4 : RESIZE_CURSORS[i] = cursor
  IN IF at - 1 + a >= 0 THEN RESIZE_CURSORS[((at - 1 + a) % 4) + 1]
     ELSE IF (-(at - 1 + a)) % 4 = 0 THEN RESIZE_CURSORS[1]
     ELSE ""

shouldSwapCursorsWhenAnyNegative(element) ==
  element.present /\ (element.height < 0 \/ element.width < 0)

shouldSwapCursors(element) ==
  element.present /\ Sign(element.height) * Sign(element.width) = -1

getCursorForResizingElement(element, transformHandleType) ==
  LET cursor ==
        CASE transformHandleType \in {"n", "s"} -> "ns"
          [] transformHandleType \in {"w", "e"} -> "ew"
          [] transformHandleType \in {"nw", "se"} ->
               IF shouldSwapCursors(element) THEN "nesw" ELSE "nwse"
          [] transformHandleType \in {"ne", "sw"} ->
               IF shouldSwapCursors(element) THEN "nwse" ELSE "nesw"
          [] OTHER -> ""
      rotated == IF cursor # "" /\ element.present
                   THEN rotateResizeCursor(cursor, element.angle) ELSE cursor
  IN IF transformHandleType = "rotation" THEN "grab"
     ELSE IF rotated # "" THEN rotated \o "-resize" ELSE ""

ResizingElements ==
  [present : {TRUE}, width : {-4, 0, 4}, height : {-2, 0, 2}, angle : -8..8]
    \cup {[present |-> FALSE, width |-> 0, height |-> 0, angle |-> 0]}

GetCursorForResizingElement ==
  \E element \in ResizingElements,
     handle \in {"n", "s", "w", "e", "nw", "se", "ne", "sw", "rotation", "false"} :
    /\ pureCall.op = "none"
    /\ pureCall' = [op |-> "getCursorForResizingElement",
                    arg |-> [element |-> element, transformHandleType |-> handle],
                    result |-> getCursorForResizingElement(element, handle)]
    /\ UNCHANGED <<oldVars, rasterVars, throttleVars, passCall>>

(***************************************************************************)
(* restoreElement on a line, arrow, legacy draw or freedraw shape.         *)
(***************************************************************************)
\* LinearElementEditor.getNormalizedPoints: the points moved so that the
\* first is [0, 0], and x, y moved the other way
getNormalizedPoints(element) ==
  [points |-> [i \in 1..Len(element.points) |->
                 <<element.points[i][1] - element.points[1][1],
                   element.points[i][2] - element.points[1][2]>>],
   x |-> element.x + element.points[1][1],
   y |-> element.y + element.points[1][2]]

restoreElement(element) ==
  IF element.type = "freedraw"
    THEN [type |-> "freedraw", x |-> element.x, y |-> element.y,
          hasPoints |-> element.hasPoints, points |-> element.points]
  ELSE
    LET points == IF ~element.hasPoints \/ Len(element.points) < 2
                    THEN <<<<0, 0>>, <<element.width, element.height>>>>
                    ELSE element.points
        normalized == IF points[1][1] # 0 \/ points[1][2] # 0
                        THEN getNormalizedPoints(element)
                        ELSE [points |-> points, x |-> element.x, y |-> element.y]
    IN [type |-> IF element.type = "draw" THEN "line" ELSE element.type,
        x |-> normalized.x, y |-> normalized.y,
        hasPoints |-> TRUE, points |-> normalized.points]

\* imported shapes; hasPoints is Array.isArray(element.points)
ImportedShapes ==
  [type : {"line", "draw", "arrow", "freedraw"}, x : {0, 5}, y : {0, -3},
   width : {2}, height : {0, 1}, hasPoints : {TRUE},
   points : {<<>>, <<<<3, 4>>>>, <<<<0, 0>>, <<2, 1>>>>, <<<<3, 4>>, <<5, 5>>>>,
             <<<<0, -1>>, <<2, 1>>, <<4, 0>>>>}]
    \cup [type : {"line", "draw", "arrow", "freedraw"}, x : {0, 5}, y : {0, -3},
          width : {2}, height : {0, 1}, hasPoints : {FALSE}, points : {<<>>}]

RestoreElement ==
  /\ pureCall.op = "none"
  /\ \E element \in ImportedShapes :
       pureCall' = [op |-> "restoreElement", arg |-> element,
                    result |-> restoreElement(element)]
  /\ UNCHANGED <<oldVars, rasterVars, throttleVars, passCall>>

(***************************************************************************)
(* actionCropImage.perform on a scene of two elements.  Widths and heights *)
(* are multiples of 10, so that 0.8 * width and width / 2 - 0.8 * width / 2*)
(* are whole numbers.  storeAction "raised" stands for a TypeError.        *)
(***************************************************************************)
\* app.scene.getSelectedElements(appState): the selected elements in scene order
getSelectedElements(in) ==
  LET isSelected(e) == e.id \in in.selected
  IN SelectSeq(in.elements, isSelected)

\* value ? value : fallback
OrIfFalsy(value, fallback) == IF value # 0 THEN value ELSE fallback

\* the crop rectangle computed for the first selected element
NextCropProperties(el) ==
  [x |-> OrIfFalsy(el.cropProperties.x, el.width \div 2 - ((8 * el.width) \div 10) \div 2),
   y |-> OrIfFalsy(el.cropProperties.y, el.height \div 2 - ((8 * el.height) \div 10) \div 2),
   width |-> OrIfFalsy(el.cropProperties.width, (8 * el.width) \div 10),
   height |-> OrIfFalsy(el.cropProperties.height, (8 * el.height) \div 10)]

actionCropImage(in) ==
  LET selectedElements == getSelectedElements(in)
      unchanged == [storeAction |-> "NONE", elements |-> in.elements, lastCropImageId |-> ""]
      raised == [storeAction |-> "raised", elements |-> in.elements, lastCropImageId |-> ""]
  IN \* selectedElements.length != 1 && selectedElements[0].type != 'image'
     IF Len(selectedElements) = 0 THEN raised
     ELSE IF Len(selectedElements) # 1 /\ selectedElements[1].type # "image" THEN unchanged
     ELSE IF ~selectedElements[1].hasCropProperties THEN raised
     ELSE [storeAction |-> "CAPTURE",
           elements |-> [i \in 1..Len(in.elements) |->
                           IF in.elements[i].id = selectedElements[1].id
                             THEN [in.elements[i] EXCEPT
                                     !.akhonRenderKoraUchit = TRUE,
                                     !.isRenderCropWindow = TRUE,
                                     !.isCroppedImage = TRUE,
                                     !.cropProperties = NextCropProperties(selectedElements[1])]
                             ELSE in.elements[i]],
           lastCropImageId |-> selectedElements[1].id]

\* an element of the crop model; an image restored from a file without
\* cropProperties has none
CropElement(id, type, width, hasCropProperties, crop) ==
  [id |-> id, type |-> type, width |-> width, height |-> 10,
   hasCropProperties |-> hasCropProperties, cropProperties |-> crop,
   akhonRenderKoraUchit |-> FALSE, isRenderCropWindow |-> FALSE, isCroppedImage |-> FALSE]

CropInputs ==
  { [elements |-> IF imageFirst THEN <<image, other>> ELSE <<other, image>>,
     selected |-> selected] :
      imageFirst \in BOOLEAN,
      selected \in SUBSET {"a", "b"},
      image \in { CropElement("a", "image", width, TRUE, crop) :
                    width \in {10, 20},
                    crop \in {NoCrop, [x |-> 0, y |-> 0, width |-> 10, height |-> 10],
                              [x |-> 2, y |-> 0, width |-> 4, height |-> 4],
                              [x |-> 1, y |-> 1, width |-> 8, height |-> 8]} }
                \cup {CropElement("a", "image", 10, FALSE, NoCrop)},
      other \in {CropElement("b", "rectangle", 10, FALSE, NoCrop),
                 CropElement("b", "image", 10, TRUE, NoCrop)} }

ActionCropImage ==
  /\ pureCall.op = "none"
  /\ \E in \in CropInputs :
       pureCall' = [op |-> "actionCropImage", arg |-> in, result |-> actionCropImage(in)]
  /\ UNCHANGED <<oldVars, rasterVars, throttleVars, passCall>>

(***************************************************************************)
(* getCubicBezierCurveBound, in exact arithmetic: a number is a fraction   *)
(* <<numerator, denominator>> with a positive denominator.  The control    *)
(* values are those whose b * b - 4 * a * c is negative or a square, so    *)
(* that Math.sqrt is exact; they are not negative.                         *)
(***************************************************************************)
RECURSIVE Gcd(_, _)
Gcd(a, b) == IF b = 0 THEN a ELSE Gcd(b, a % b)

\* n / d in lowest terms, d # 0
Frac(n, d) ==
  IF n = 0 THEN <<0, 1>>
  ELSE <<(IF d < 0 THEN -n ELSE n) \div Gcd(Abs(n), Abs(d)), Abs(d) \div Gcd(Abs(n), Abs(d))>>

RatMin(a, b) == IF RatLess(b[1], b[2], a[1], a[2]) THEN b ELSE a

RatMax(a, b) == IF RatLess(a[1], a[2], b[1], b[2]) THEN b ELSE a

\* the value of the cubic at t = t[1] / t[2]
getBezierValueForT(t, p0, p1, p2, p3) ==
  Frac((t[2] - t[1]) * (t[2] - t[1]) * (t[2] - t[1]) * p0
         + 3 * (t[2] - t[1]) * (t[2] - t[1]) * t[1] * p1
         + 3 * (t[2] - t[1]) * t[1] * t[1] * p2
         + t[1] * t[1] * t[1] * p3,
       t[2] * t[2] * t[2])

\* a solver that finds no extremum
solveQuadraticWithoutRoots(p0, p1, p2, p3) == <<>>

\* solveQuadratic: the values at the roots of the derivative that lie in
\* [0, 1], s1 then s2 without the nulls; <<>> also when it returns false
solveQuadratic(p0, p1, p2, p3) ==
  LET i == p1 - p0
      j == p2 - p1
      k == p3 - p2
      a == 3 * i - 6 * j + 3 * k
      b == 6 * j - 6 * i
      c == 3 * i
      sqrtPart == b * b - 4 * a * c
      root == FloorSqrt(0, 46340, sqrtPart)
      \* -c / b is infinite or NaN when b = 0: no t in [0, 1]
      defined == a # 0 \/ b # 0
      t1 == IF a = 0 THEN Frac(-c, b) ELSE Frac(-b + root, 2 * a)
      t2 == IF a = 0 THEN Frac(-c, b) ELSE Frac(-b - root, 2 * a)
      s(t) == IF t[1] >= 0 /\ t[1] <= t[2]
                THEN <<getBezierValueForT(t, p0, p1, p2, p3)>> ELSE <<>>
  IN IF sqrtPart < 0 \/ ~defined THEN <<>> ELSE s(t1) \o s(t2)

\* Math.min(min, ...xs) and Math.max(max, ...xs) on one axis
AxisBound(p0, p1, p2, p3) ==
  LET sol == solveQuadratic(p0, p1, p2, p3)
      lo == <<Min2(p0, p3), 1>>
      hi == <<Max2(p0, p3), 1>>
  IN IF Len(sol) = 0 THEN <<lo, hi>>
     ELSE IF Len(sol) = 1 THEN <<RatMin(lo, sol[1]), RatMax(hi, sol[1])>>
     ELSE <<RatMin(RatMin(lo, sol[1]), sol[2]), RatMax(RatMax(hi, sol[1]), sol[2])>>

\* [minX, minY, maxX, maxY] for the control values xs and ys
getCubicBezierCurveBound(xs, ys) ==
  <<AxisBound(xs[1], xs[2], xs[3], xs[4])[1], AxisBound(ys[1], ys[2], ys[3], ys[4])[1],
    AxisBound(xs[1], xs[2], xs[3], xs[4])[2], AxisBound(ys[1], ys[2], ys[3], ys[4])[2]>>

ControlValues ==
  { q \in [1..4 -> {0, 50, 100}] :
      LET a == 3 * (q[2] - q[1]) - 6 * (q[3] - q[2]) + 3 * (q[4] - q[3])
          b == 6 * (q[3] - q[2]) - 6 * (q[2] - q[1])
          c == 3 * (q[2] - q[1])
          d == b * b - 4 * a * c
      IN d < 0 \/ FloorSqrt(0, 46340, d) * FloorSqrt(0, 46340, d) = d }

GetCubicBezierCurveBound ==
  /\ pureCall.op = "none"
  /\ \E xs \in ControlValues, ys \in ControlValues :
       pureCall' = [op |-> "getCubicBezierCurveBound", arg |-> [xs |-> xs, ys |-> ys],
                    result |-> getCubicBezierCurveBound(xs, ys)]
  /\ UNCHANGED <<oldVars, rasterVars, throttleVars, passCall>>

(***************************************************************************)
(* actionGroup and actionMakeClippingMask.  A scene is the element list,   *)
(* the selected element ids and the selected group ids; randomId() gives   *)
(* the group id "g3" and the mask id "m1", which no element carries yet.   *)
(* No group is being edited and every element is in the same frame.        *)
(***************************************************************************)
isElementInGroup(element, groupId) ==
  \E i \in 1..Len(element.groupIds) : element.groupIds[i] = groupId

getElementsInGroup(elements, groupId) ==
  LET inGroup(e) == isElementInGroup(e, groupId)
  IN SelectSeq(elements, inGroup)

\* addToGroup with editingGroupId null
addToGroup(prevGroupIds, newGroupId) == Append(prevGroupIds, newGroupId)

\* the two early returns: fewer than two selected elements, or one selected
\* group that holds every selected element
NothingToGroup(in) ==
  LET selectedElements == getSelectedElements(in)
  IN \/ Len(selectedElements) < 2
     \/ /\ Cardinality(in.selectedGroupIds) = 1
        /\ \A g \in in.selectedGroupIds :
             LET elementIdsInGroup ==
                   {e.id : e \in SeqToSet(getElementsInGroup(in.elements, g))}
                 selectedElementIds == {e.id : e \in SeqToSet(selectedElements)}
             IN Cardinality(elementIdsInGroup \cup selectedElementIds)
                  = Cardinality(elementIdsInGroup)

\* nextElements with the new group id on the selected elements
WithNewGroup(in, newGroupId) ==
  [i \in 1..Len(in.elements) |->
     IF in.elements[i].id \in in.selected
       THEN [in.elements[i] EXCEPT !.groupIds = addToGroup(@, newGroupId)]
       ELSE in.elements[i]]

\* [...elementsBeforeGroup, ...elementsInGroup, ...elementsAfterGroup];
\* syncMovedIndices keeps this order
MoveToHighest(nextElements, elementsInGroup, newGroupId) ==
  LET lastElementInGroup == elementsInGroup[Len(elementsInGroup)]
      lastGroupElementIndex ==
        CHOOSE i \in 1..Len(nextElements) : nextElements[i].id = lastElementInGroup.id
      notInGroup(e) == ~isElementInGroup(e, newGroupId)
  IN SelectSeq(SubSeq(nextElements, 1, lastGroupElementIndex - 1), notInGroup)
       \o elementsInGroup
       \o SubSeq(nextElements, lastGroupElementIndex + 1, Len(nextElements))

\* grouping that leaves the z order alone
actionGroupInPlace(in) ==
  IF NothingToGroup(in)
    THEN [storeAction |-> "NONE", elements |-> in.elements,
          selectedGroupIds |-> in.selectedGroupIds]
    ELSE [storeAction |-> "CAPTURE", elements |-> WithNewGroup(in, "g3"),
          selectedGroupIds |-> {"g3"}]

actionGroup(in) ==
  IF NothingToGroup(in)
    THEN [storeAction |-> "NONE", elements |-> in.elements,
          selectedGroupIds |-> in.selectedGroupIds]
    ELSE [storeAction |-> "CAPTURE",
          elements |-> MoveToHighest(WithNewGroup(in, "g3"),
                                     getElementsInGroup(WithNewGroup(in, "g3"), "g3"), "g3"),
          selectedGroupIds |-> {"g3"}]

\* a mask whose positions are counted from 0
actionMakeClippingMaskFromZero(in) ==
  IF NothingToGroup(in)
    THEN [storeAction |-> "NONE", elements |-> in.elements,
          selectedGroupIds |-> in.selectedGroupIds]
    ELSE LET members == getElementsInGroup(WithNewGroup(in, "g3"), "g3")
             elementsInGroup ==
               [Index \in 1..Len(members) |->
                  [members[Index] EXCEPT !.isMakeClippingMask = TRUE,
                                         !.clippingMaskId = "m1",
                                         !.cmGroupLength = Len(members),
                                         !.cmeIndex = Index - 1]]
         IN [storeAction |-> "CAPTURE",
             elements |-> MoveToHighest(WithNewGroup(in, "g3"), elementsInGroup, "g3"),
             selectedGroupIds |-> {"g3"}]

actionMakeClippingMask(in) ==
  IF NothingToGroup(in)
    THEN [storeAction |-> "NONE", elements |-> in.elements,
          selectedGroupIds |-> in.selectedGroupIds]
    ELSE LET members == getElementsInGroup(WithNewGroup(in, "g3"), "g3")
             \* Index + 1 of the source, Index counted from 0 there
             elementsInGroup ==
               [Index \in 1..Len(members) |->
                  [members[Index] EXCEPT !.isMakeClippingMask = TRUE,
                                         !.clippingMaskId = "m1",
                                         !.cmGroupLength = Len(members),
                                         !.cmeIndex = Index]]
         IN [storeAction |-> "CAPTURE",
             elements |-> MoveToHighest(WithNewGroup(in, "g3"), elementsInGroup, "g3"),
             selectedGroupIds |-> {"g3"}]

SceneIds == <<"a", "b", "c", "d">>

\* scenes of four elements, each in no group, in "g1" or in "g2"; with
\* oldMask the members of "g1" are an earlier clipping mask "m0".  A selected
\* group has all its members selected.
GroupScenes ==
  { in \in { [elements |->
                [i \in 1..4 |->
                   LET masked == oldMask /\ gs[i] = <<"g1">>
                   IN [id |-> SceneIds[i], groupIds |-> gs[i],
                       isMakeClippingMask |-> masked,
                       clippingMaskId |-> IF masked THEN "m0" ELSE "",
                       cmGroupLength |->
                         IF masked THEN Cardinality({j \in 1..4 : gs[j] = <<"g1">>}) ELSE 0,
                       cmeIndex |->
                         IF masked THEN Cardinality({j \in 1..i : gs[j] = <<"g1">>}) ELSE 0]],
              selected |-> selected,
              selectedGroupIds |-> selectedGroupIds] :
                gs \in [1..4 -> {<<>>, <<"g1">>, <<"g2">>}],
                selected \in SUBSET {"a", "b", "c", "d"},
                selectedGroupIds \in SUBSET {"g1", "g2"},
                oldMask \in BOOLEAN } :
      \A g \in in.selectedGroupIds :
        /\ Len(getElementsInGroup(in.elements, g)) > 0
        /\ \A i \in 1..4 :
             isElementInGroup(in.elements[i], g) => in.elements[i].id \in in.selected }

ActionGroup ==
  /\ pureCall.op = "none"
  /\ \E in \in GroupScenes :
       pureCall' = [op |-> "actionGroup", arg |-> in, result |-> actionGroup(in)]
  /\ UNCHANGED <<oldVars, rasterVars, throttleVars, passCall>>

ActionMakeClippingMask ==
  /\ pureCall.op = "none"
  /\ \E in \in GroupScenes :
       pureCall' = [op |-> "actionMakeClippingMask", arg |-> in,
                    result |-> actionMakeClippingMask(in)]
  /\ UNCHANGED <<oldVars, rasterVars, throttleVars, passCall>>

\* the call returns
PureReturn ==
  /\ pureCall.op # "none"
  /\ pureCall' = [op |-> "none"]
  /\ UNCHANGED <<oldVars, rasterVars, throttleVars, passCall>>

PureNext ==
  \/ CappedElementCanvasSize
  \/ GetCursorForResizingElement
  \/ RestoreElement
  \/ ActionCropImage
  \/ GetCubicBezierCurveBound
  \/ ActionGroup
  \/ ActionMakeClippingMask
  \/ PureReturn

(***************************************************************************)
(* renderInteractiveScene and renderInteractiveSceneThrottled.  A config   *)
(* is a number, 0 for none; every config carries its callback (the         *)
(* unthrottled path calls renderConfig.callback unconditionally).          *)
(***************************************************************************)
MaxCalls == 3

MaxTicks == 3

Configs == {1, 2, 3}

\* throttleRAF, trailing: the arguments kept for the next tick
KeepFirstArgs(pending, config) == IF pending = 0 THEN config ELSE pending

PendingArgs(pending, config) == config

\* the throttled function: _renderInteractiveScene(config), then its callback
RenderAndCallBack(kind, config, calls, latest) ==
  [kind |-> kind, calls |-> calls, latest |-> latest,
   rendered |-> IF config = 0 THEN <<>> ELSE <<config>>,
   callbacks |-> IF config = 0 THEN <<>> ELSE <<config>>]

ThrottleInit ==
  /\ throttle = [pending |-> 0, calls |-> 0, latest |-> 0, ticks |-> 0]
  /\ throttleOut = RenderAndCallBack("none", 0, 0, 0)

\* renderInteractiveScene(renderConfig, true)
RenderThrottled(config) ==
  /\ throttle.calls < MaxCalls
  /\ throttle' = [throttle EXCEPT !.pending = PendingArgs(throttle.pending, config),
                                  !.calls = @ + 1, !.latest = config]
  /\ UNCHANGED <<throttleOut, oldVars, rasterVars, pureCall, passCall>>

\* renderInteractiveScene(renderConfig): rendered at once, nothing scheduled
RenderNow(config) ==
  /\ throttleOut' = RenderAndCallBack("now", config, 0, config)
  /\ UNCHANGED <<throttle, oldVars, rasterVars, pureCall, passCall>>

\* the display refreshes: the animation-frame callback, if one is scheduled
RefreshTick ==
  /\ throttle.ticks < MaxTicks
  /\ throttleOut' = RenderAndCallBack("tick", throttle.pending, throttle.calls, throttle.latest)
  /\ throttle' = [pending |-> 0, calls |-> 0, latest |-> throttle.latest,
                  ticks |-> throttle.ticks + 1]
  /\ UNCHANGED <<oldVars, rasterVars, pureCall, passCall>>

ThrottleNext ==
  \/ \E config \in Configs : RenderThrottled(config)
  \/ \E config \in Configs : RenderNow(config)
  \/ RefreshTick

(***************************************************************************)
(* _renderInteractiveScene: the part of one pass that paints the selection *)
(* borders, for a scene of two shapes that may belong to one group, with   *)
(* showBoundingBox on and no multi-point or linear editing under way.  A   *)
(* malformed shape is one whose getElementAbsoluteCoords raises.           *)
(***************************************************************************)
SceneShapes == <<"s1", "s2">>

RemoteEntries ==
  {[has |-> FALSE, clients |-> <<>>], [has |-> TRUE, clients |-> <<>>],
   [has |-> TRUE, clients |-> <<"c1">>], [has |-> TRUE, clients |-> <<"c1", "c2">>]}

\* the scenes and view states one pass can be given; members of a selected
\* group are among the selected elements
PassInputs ==
  { in \in [local : [{"s1", "s2"} -> BOOLEAN], inGroup : [{"s1", "s2"} -> BOOLEAN],
            groupSelected : BOOLEAN, remote : [{"s1", "s2"} -> RemoteEntries],
            malformed : [{"s1", "s2"} -> BOOLEAN], selectionElement : {"none", "ok", "malformed"}] :
      \A e \in {"s1", "s2"} : (in.groupSelected /\ in.inGroup[e]) => in.local[e] }

isSelectedViaGroup(in, e) == in.groupSelected /\ in.inGroup[e]

selectionColorsOfAnySelected(in, e) ==
  (IF in.local[e] THEN <<"selectionColor">> ELSE <<>>) \o in.remote[e].clients

\* the colours pushed for one shape: the local one, then one per remote client
selectionColorsOf(in, e) ==
  (IF in.local[e] /\ ~isSelectedViaGroup(in, e) THEN <<"selectionColor">> ELSE <<>>)
    \o in.remote[e].clients

\* the selections pushed by the loop over elementsMap.values(), from shape i on
RECURSIVE ShapeSelections(_, _)
ShapeSelections(in, i) ==
  IF i > Len(SceneShapes) THEN <<>>
  ELSE (IF selectionColorsOf(in, SceneShapes[i]) # <<>>
          THEN <<[target |-> SceneShapes[i],
                  selectionColors |-> selectionColorsOf(in, SceneShapes[i]),
                  dashed |-> in.remote[SceneShapes[i]].has]>>
          ELSE <<>>) \o ShapeSelections(in, i + 1)

\* addSelectionForGroupId for the selected group
GroupSelections(in) ==
  IF in.groupSelected
    THEN <<[target |-> "group", selectionColors |-> <<"black">>, dashed |-> TRUE]>>
    ELSE <<>>

\* the loop reads the coordinates of every shape it pushes a selection for
SelectionLoopRaises(in) ==
  \E i \in 1..Len(SceneShapes) :
    in.malformed[SceneShapes[i]] /\ selectionColorsOf(in, SceneShapes[i]) # <<>>

\* one pass: what was logged, drawn and returned
renderInteractiveSceneBody(in) ==
  [raised |-> SelectionLoopRaises(in),
   \* renderSelectionElement is inside try/catch: logged, the pass goes on
   logged |-> IF in.selectionElement = "malformed" THEN 1 ELSE 0,
   selectionElementDrawn |-> in.selectionElement = "ok",
   borders |-> IF SelectionLoopRaises(in) THEN <<>>
               ELSE ShapeSelections(in, 1) \o GroupSelections(in),
   steps |-> IF SelectionLoopRaises(in) THEN <<>>
             ELSE <<"transformHandles", "snaps", "remoteCursors", "scrollbars">>,
   returned |-> ~SelectionLoopRaises(in)]

\* the render of one frame
RenderInteractiveScenePass ==
  /\ ~passCall.called
  /\ \E in \in PassInputs :
       passCall' = [called |-> TRUE, in |-> in, out |-> renderInteractiveSceneBody(in)]
  /\ UNCHANGED <<oldVars, rasterVars, pureCall, throttleVars>>

\* the scene changes before the next frame
NextFrame ==
  /\ passCall.called
  /\ passCall' = [called |-> FALSE]
  /\ UNCHANGED <<oldVars, rasterVars, pureCall, throttleVars>>

PassNext ==
  \/ RenderInteractiveScenePass
  \/ NextFrame

\* the subsystems above at rest
NewIdle == RasterInit /\ PureInit /\ ThrottleInit /\ passCall = [called |-> FALSE]

(***************************************************************************)
(* Specifications: one per subsystem, the others at rest.                  *)
(***************************************************************************)
Init == MaskInit /\ BoundsInit /\ CalcIdle /\ ResizeIdle /\ NewIdle

Spec == Init /\ [][MaskNext]_vars

InitBounds == MaskIdle /\ BoundsInit /\ CalcIdle /\ ResizeIdle /\ NewIdle

SpecBounds == InitBounds /\ [][BoundsNext]_vars

InitCalc == MaskIdle /\ BoundsInit /\ CalcInit /\ ResizeIdle /\ NewIdle

SpecCalc == InitCalc /\ [][CalcNext]_vars

InitResize == MaskIdle /\ BoundsInit /\ CalcIdle /\ ResizeInit /\ NewIdle

SpecResize == InitResize /\ [][ResizeNext]_vars

InitNew == MaskIdle /\ BoundsInit /\ CalcIdle /\ ResizeIdle /\ NewIdle

SpecRaster == InitNew /\ [][RasterNext]_vars

SpecPure == InitNew /\ [][PureNext]_vars

SpecThrottle == InitNew /\ [][ThrottleNext]_vars

SpecPass == InitNew /\ [][PassNext]_vars

(***************************************************************************)
(* Claims about the clipping-mask compositor.                              *)
(***************************************************************************)
\* C1 (as stated): a call on a tagged shape draws nothing to the main surface
\* while the accumulated count is below the declared group size N, and the
\* call that brings the count to N draws the composite exactly once.
C1_DrawsOnceOnReachingN ==
  lastCall.masked =>
    /\ lastCall.count < cmGroupLength(lastCall.elem) => lastCall.mainDrawn = 0
    /\ lastCall.count = cmGroupLength(lastCall.elem) => lastCall.mainDrawn = 1

\* C1 (amended): a call on a tagged shape draws nothing to the main surface
\* unless it brings the accumulated count to exactly N; the call that brings
\* it to N draws the composite exactly once when every member of the batch
\* can be drawn, and raises without drawing to the main surface when a member
\* has an unrecognised type.
C1_DrawsOnceOnReachingNUnlessRaise ==
  lastCall.masked =>
    /\ lastCall.count # cmGroupLength(lastCall.elem) =>
         lastCall.mainDrawn = 0 /\ lastCall.outcome = "accumulated"
    /\ lastCall.count = cmGroupLength(lastCall.elem) =>
         /\ Len(lastCall.batch) = lastCall.count
         /\ IF \E i \in 1..Len(lastCall.batch) : elemType[lastCall.batch[i]] \notin KnownTypes
            THEN lastCall.outcome = "raised" /\ lastCall.mainDrawn = 0
            ELSE lastCall.outcome = "composited" /\ lastCall.mainDrawn = 1
    /\ mainDraws[clippingMaskId(lastCall.elem)] <= 1

\* a batch of three has just completed and been drawn once
C1_Witness ==
  /\ lastCall.masked
  /\ lastCall.count = 3
  /\ lastCall.outcome = "composited"
  /\ lastCall.mainDrawn = 1
  /\ mainDraws["m1"] = 1

\* C2: when every pass hands renderElement the same 2 of the 3 declared
\* members of a mask, nothing is ever drawn to the main surface for it.
C2_TwoOfThreeNeverDraws ==
  \A m \in MaskIds :
    \A S \in SUBSET Members(m) :
      ( /\ Cardinality(S) = DeclaredSize(m) - 1
        /\ frame > 1 => (pastUnion \cap Members(m) = S /\ pastInter \cap Members(m) = S)
        /\ (rendered \cap Members(m)) \subseteq S )
      => mainDraws[m] = 0

\* C3: once a batch has completed and been drawn the map holds no entry for
\* its mask id, and every later pass that hands over all N members draws one
\* composite, built from exactly the N members of that pass.
C3_CompletedBatchIsClearedAndRebuilt ==
  /\ (lastCall.outcome = "composited") => ~MapHas(clippingMaskId(lastCall.elem))
  /\ \A m \in MaskIds :
       (AllTypesKnown /\ m \in completedBefore /\ Members(m) \subseteq rendered) =>
         /\ mainDraws[m] = 1
         /\ Len(composited[m]) = DeclaredSize(m)
         /\ SeqToSet(composited[m]) = Members(m)

\* C26: when drawing a member raises while a complete batch is composited,
\* the accumulation map holds no entry for that mask id once the call has
\* ended, so that a later pass handing over all the members starts from an
\* empty batch.
C26_RaisedBatchIsCleared ==
  (lastCall.masked /\ lastCall.outcome = "raised") =>
    ~MapHas(clippingMaskId(lastCall.elem))

\* C27: in every reachable state the list accumulated for a mask id holds
\* pairwise distinct shapes and no more of them than the declared group size,
\* and every composited batch consists of cmGroupLength distinct shapes that
\* were all passed to renderElement in the current pass.
C27_AccumulatedShapesDistinctAndCurrent ==
  /\ \A m \in DOMAIN maskedElementsMap :
       /\ Cardinality(SeqToSet(maskedElementsMap[m])) = Len(maskedElementsMap[m])
       /\ Len(maskedElementsMap[m]) <= DeclaredSize(m)
  /\ (lastCall.masked /\ lastCall.outcome = "composited") =>
       /\ Len(lastCall.batch) = cmGroupLength(lastCall.elem)
       /\ Cardinality(SeqToSet(lastCall.batch)) = cmGroupLength(lastCall.elem)
       /\ SeqToSet(lastCall.batch) \subseteq rendered

\* C4: the members of a completed batch are drawn onto the offscreen surface
\* in ascending order of their fractional order key, and destination-in is
\* in force for the member with the greatest key only.
C4_DrawnInKeyOrderMaskLast ==
  (lastCall.outcome = "composited") =>
    LET d == lastCall.offscreen IN
    /\ \A i \in 1..(Len(d) - 1) : KeyCompare(index(d[i].elem), index(d[i + 1].elem)) <= 0
    /\ \A i \in 1..Len(d) :
         (d[i].op = "destination-in") <=>
           (i = Len(d) /\ \A j \in 1..Len(d) : KeyCompare(index(d[j].elem), index(d[i].elem)) <= 0)

(***************************************************************************)
(* Claims about the bounds cache.                                          *)
(***************************************************************************)

\* C5: getBounds returns the cached array, leaving the cache as it is, exactly
\* when an entry exists whose version equals the shape's current version and
\* the shape is not a text label bound to a container; in every other case it
\* computes the bounds anew and overwrites the entry with the current version.
C5_CachedIffCurrentAndNotLabel ==
  [][ (bcall'.op = "getBounds") =>
        LET e == bcall'.elem
            entry == CacheGet(boundsCache, e)
            current == /\ entry.present
                       /\ entry.version = scene[e].version
                       /\ ~isBoundToContainer(scene[e])
        IN IF current
             THEN /\ bcall'.ref = entry.ref
                  /\ bcall'.bounds = entry.bounds
                  /\ boundsCache' = boundsCache
             ELSE /\ entry.present => bcall'.ref # entry.ref
                  /\ bcall'.bounds = calculateBounds(scene, e, ShapeIds)
                  /\ boundsCache' =
                       CacheSet(boundsCache, e, [version |-> scene[e].version,
                                                 bounds |-> bcall'.bounds,
                                                 ref |-> bcall'.ref]) ]_vars

\* C5 witness: a getBounds call on the arrow was served from the cache although
\* its label had been edited since the previous call.
C5_Witness ==
  /\ bcall.op = "getBounds"
  /\ bcall.elem = "A"
  /\ bcall.prevRef # 0
  /\ bcall.mutatedAny
  /\ ~bcall.mutatedSelf
  /\ bcall.ref = bcall.prevRef

\* C6 as stated: for any shape, a getBounds call that follows an earlier one
\* with no mutation in between returns the identical array, and one that
\* follows an increment of the shape's version returns a new array.
C6_SameRefUntilVersionChanges ==
  (bcall.op = "getBounds" /\ bcall.prevRef # 0) =>
    /\ ~bcall.mutatedAny => bcall.ref = bcall.prevRef
    /\ bcall.mutatedSelf => bcall.ref # bcall.prevRef

\* C6 amended: the identical array comes back for every shape that is not a
\* text label bound to a container; a new array follows a version increment
\* for every shape.
C6_SameRefUntilVersionChangesUnlessLabel ==
  (bcall.op = "getBounds" /\ bcall.prevRef # 0) =>
    /\ (~bcall.mutatedAny /\ ~isBoundToContainer(scene[bcall.elem]))
         => bcall.ref = bcall.prevRef
    /\ bcall.mutatedSelf => bcall.ref # bcall.prevRef

\* C6 witness: a second getBounds call on the arrow, nothing mutated since the
\* first, returned the array of the first.
C6_Witness ==
  /\ bcall.op = "getBounds"
  /\ bcall.elem = "A"
  /\ bcall.prevRef # 0
  /\ ~bcall.mutatedAny
  /\ bcall.ref = bcall.prevRef

\* C7: the bounds getBounds returns for a linear element with a bound label
\* equal a fresh computation on the current shapes (every call so far having
\* used the whole scene as the lookup).
C7_LabelledLinearBoundsAreFresh ==
  ( /\ bcall.op = "getBounds"
    /\ ~partialUsed
    /\ isLinearElement(scene[bcall.elem])
    /\ scene[bcall.elem].boundText # "" )
  => bcall.bounds = calculateBounds(scene, bcall.elem, ShapeIds)

\* C8: getCommonBounds of a non-empty list returns the union of the bounds a
\* computation with the full lookup gives for each listed shape, whatever the
\* order of the list and whatever calls came before.
C8_CommonBoundsIsUnionOfFullBounds ==
  (bcall.op = "getCommonBounds" /\ Len(bcall.list) > 0) =>
    LET l == bcall.list
        first == calculateBounds(scene, l[1], ShapeIds)
    IN bcall.bounds = IF Len(l) = 1 THEN first
                      ELSE UnionBounds(first, calculateBounds(scene, l[2], ShapeIds))

(***************************************************************************)
(* Claims about the bounds of one shape.                                   *)
(***************************************************************************)

\* C9 as stated: for a rectangle-like shape, a diamond or an ellipse with
\* angle 0, getBounds is the corner rectangle [x, y, x + width, y + height].
C9_UnrotatedBoundsAreCornerRectangle ==
  (calcOut # << >> /\ calcShape.angle = 0) =>
    calcOut = << calcShape.x, calcShape.y,
                 calcShape.x + calcShape.width, calcShape.y + calcShape.height >>

\* C9 amended: with angle 0 and a width and a height that are not negative,
\* getBounds is the corner rectangle [x, y, x + width, y + height].
C9_UnrotatedBoundsAreCornerRectangleIfNotFlipped ==
  (calcOut # << >> /\ calcShape.angle = 0
     /\ calcShape.width >= 0 /\ calcShape.height >= 0) =>
    calcOut = << calcShape.x, calcShape.y,
                 calcShape.x + calcShape.width, calcShape.y + calcShape.height >>

\* C9 witness: the diamond of width 100 and height 50 with angle 0 has the
\* bounds [x, y, x + 100, y + 50].
C9_Witness ==
  /\ calcShape.type = "diamond"
  /\ calcShape.width = 100
  /\ calcShape.height = 50
  /\ calcShape.angle = 0
  /\ calcOut = << calcShape.x, calcShape.y, calcShape.x + 100, calcShape.y + 50 >>

(***************************************************************************)
(* Claims about the transform-handle hit test.                             *)
(***************************************************************************)

\* C10: for a selected shape, whenever the pointer is inside the rotation
\* handle's square resizeTest returns "rotation", whatever else the pointer
\* is inside or near.
C10_RotationHandleWins ==
  ( /\ rtOut.called
    /\ rtIn.selected
    /\ rotationTransformHandle(rtIn) # << >>
    /\ isInsideTransformHandle(rotationTransformHandle(rtIn), rtOut.x, rtOut.y) )
  => rtOut.result = "rotation"

\* C10 witness: the pointer is inside the rotation handle and also inside
\* another handle or on a side, and the result is "rotation".
C10_Witness ==
  /\ rtOut.called
  /\ rtIn.selected
  /\ rotationTransformHandle(rtIn) # << >>
  /\ isInsideTransformHandle(rotationTransformHandle(rtIn), rtOut.x, rtOut.y)
  /\ ResizeTestTail(rtIn, rtOut.x, rtOut.y) \in {"n", "e", "s", "w"}
  /\ SideHit(rtIn, rtOut.x, rtOut.y) # ""
  /\ rtOut.result = "rotation"

\* C11 as stated: on a selected shape resizeTest returns the role of the first
\* category the pointer matches, in the order rotation handle, handle squares,
\* crop corner handles, sides of the widened bounds, sides of the crop
\* rectangle, and false only when the pointer matches none of them.
C11_FirstMatchingCategory ==
  (rtOut.called /\ rtIn.selected) =>
    LET x == rtOut.x
        y == rtOut.y
        handle == FirstInside(getTransformHandles(rtIn), x, y, 1)
        cropHandle == FirstInside(getCropTransformHandles(rtIn), x, y, 1)
        side == FirstSide(BoundsSides(rtIn), x, y, Spacing(rtIn), 1)
        cropSide == IF HasCropWindow(rtIn.element)
                      THEN FirstSide(CropSides(rtIn), x, y, Spacing(rtIn), 1) ELSE ""
    IN rtOut.result =
         IF RotationHit(rtIn, x, y) THEN "rotation"
         ELSE IF handle # "" THEN handle
         ELSE IF cropHandle # "" THEN cropHandle
         ELSE IF side # "" THEN side
         ELSE IF cropSide # "" THEN cropSide
         ELSE "false"

\* C11 amended: the same order, where the two side categories count only on a
\* device that resizes from the sides and the sides of the widened bounds do
\* not count for a linear shape of at most two points.
C11_FirstMatchingCategoryWhereSidesApply ==
  (rtOut.called /\ rtIn.selected) =>
    LET x == rtOut.x
        y == rtOut.y
        handle == FirstInside(getTransformHandles(rtIn), x, y, 1)
        cropHandle == FirstInside(getCropTransformHandles(rtIn), x, y, 1)
        sidesApply == canResizeFromSides(rtIn.device)
        twoPoint == isLinearElement(rtIn.element) /\ Len(rtIn.element.points) <= 2
        side == IF sidesApply /\ ~twoPoint
                  THEN FirstSide(BoundsSides(rtIn), x, y, Spacing(rtIn), 1) ELSE ""
        cropSide == IF sidesApply /\ HasCropWindow(rtIn.element)
                      THEN FirstSide(CropSides(rtIn), x, y, Spacing(rtIn), 1) ELSE ""
    IN rtOut.result =
         IF RotationHit(rtIn, x, y) THEN "rotation"
         ELSE IF handle # "" THEN handle
         ELSE IF cropHandle # "" THEN cropHandle
         ELSE IF side # "" THEN side
         ELSE IF cropSide # "" THEN cropSide
         ELSE "false"

\* C11 witness: the pointer is inside a corner handle square and on a side of
\* the widened bounds, and the result is the corner role.
C11_Witness ==
  /\ rtOut.called
  /\ rtIn.selected
  /\ ~RotationHit(rtIn, rtOut.x, rtOut.y)
  /\ canResizeFromSides(rtIn.device)
  /\ FirstInside(getTransformHandles(rtIn), rtOut.x, rtOut.y, 1) \in {"nw", "ne", "sw", "se"}
  /\ SideHit(rtIn, rtOut.x, rtOut.y) # ""
  /\ rtOut.result = FirstInside(getTransformHandles(rtIn), rtOut.x, rtOut.y, 1)

\* C12: resizeTest and CropWindowResizeTest return false for a shape that is
\* not selected, wherever the pointer is and whatever the zoom and the device.
C12_UnselectedIsFalse ==
  /\ (rtOut.called /\ ~rtIn.selected) => rtOut.result = "false"
  /\ (cwOut.called /\ ~rtIn.selected) => cwOut.result = "false"

\* C12 witness: resizeTest was called with the pointer inside the rotation
\* handle of a shape that is not selected, and returned false.
C12_Witness ==
  /\ rtOut.called
  /\ ~rtIn.selected
  /\ RotationHit(rtIn, rtOut.x, rtOut.y)
  /\ rtOut.result = "false"

\* C23: for a selected linear shape of at most two points resizeTest gives
\* no role through the side test: with the pointer inside no handle square
\* the result is false, also when the pointer is within the tolerance of a
\* side of the shape's bounds.
C23_TwoPointLineHasNoSideRole ==
  (/\ rtOut.called
   /\ rtIn.selected
   /\ isLinearElement(rtIn.element) /\ Len(rtIn.element.points) <= 2
   /\ ~RotationHit(rtIn, rtOut.x, rtOut.y)
   /\ FirstInside(getTransformHandles(rtIn), rtOut.x, rtOut.y, 1) = ""
   /\ FirstInside(getCropTransformHandles(rtIn), rtOut.x, rtOut.y, 1) = "")
    => rtOut.result = "false"

\* C23 witness: on a device that resizes from the sides the pointer is on a
\* side of the widened bounds of a selected two-point line, inside no handle
\* square, and the result is false.
C23_Witness ==
  /\ rtOut.called
  /\ rtIn.selected
  /\ isLinearElement(rtIn.element) /\ Len(rtIn.element.points) = 2
  /\ canResizeFromSides(rtIn.device)
  /\ ~RotationHit(rtIn, rtOut.x, rtOut.y)
  /\ FirstInside(getTransformHandles(rtIn), rtOut.x, rtOut.y, 1) = ""
  /\ FirstSide(BoundsSides(rtIn), rtOut.x, rtOut.y, Spacing(rtIn), 1) # ""
  /\ rtOut.result = "false"

\* C15: every renderElement call on a shape whose type is outside the known
\* set raises in that call, whether or not the shape carries clipping-mask
\* tags.
C15_UnknownTypeRaisesInItsCall ==
  (lastCall.elem # "none" /\ elemType[lastCall.elem] \notin KnownTypes)
    => lastCall.outcome = "raised"

(***************************************************************************)
(* Claims about the raster cache.                                          *)
(***************************************************************************)

\* C13: generateElementWithCanvas builds and stores a new entry exactly when
\* no entry exists, or the zoom differs from the entry's while
\* shouldCacheIgnoreZoom is off, or the theme differs, or the bound label's
\* version differs from the entry's, or the containing frame's opacity differs
\* from the entry's, or the redraw flag is set; otherwise it returns the
\* entry it found.
C13_RegeneratesIffInputChanged ==
  rasterCall.called =>
    LET prev == rasterCall.prev
        env == rasterEnv
        due == \/ ~prev.present
               \/ (prev.zoomValue # env.zoom /\ ~env.shouldCacheIgnoreZoom)
               \/ prev.theme # env.theme
               \/ prev.boundTextElementVersion # (IF env.hasLabel THEN env.labelVersion ELSE 0)
               \/ (env.hasFrame /\ prev.containingFrameOpacity # env.frameOpacity)
               \/ (~env.hasFrame /\ prev.containingFrameOpacity # 100)
               \/ env.forceRedraw
    IN IF due THEN /\ rasterCall.returned.canvas # prev.canvas
                   /\ rasterCache = rasterCall.returned
       ELSE rasterCall.returned = prev /\ rasterCache = prev

(***************************************************************************)
(* Claims about the functions of their arguments alone.                    *)
(***************************************************************************)

\* C30: after generateElementWithCanvas has regenerated because the shape's
\* force-redraw flag was set, the next render of the same shape, with zoom,
\* theme, label version and frame opacity unchanged, returns the cached entry.
C30_CachedAfterForcedRedraw ==
  [][ ( /\ rasterCall.called
        /\ rasterEnv.forceRedraw
        /\ rasterCall.returned # rasterCall.prev
        /\ rasterEnv' = rasterEnv
        /\ rasterCall'.called )
      => rasterCall'.returned = rasterCall.returned ]_vars

C19_CursorOfHandle ==
  pureCall.op = "getCursorForResizingElement" =>
    LET element == pureCall.arg.element
        handle == pureCall.arg.transformHandleType
        flipped == (element.width > 0 /\ element.height < 0)
                     \/ (element.width < 0 /\ element.height > 0)
    IN /\ handle = "rotation" => pureCall.result = "grab"
       /\ handle = "false" => pureCall.result = ""
       /\ (element.present /\ element.angle = 0) =>
            /\ handle \in {"n", "s"} => pureCall.result = "ns-resize"
            /\ handle \in {"e", "w"} => pureCall.result = "ew-resize"
            /\ handle \in {"nw", "se"} =>
                 pureCall.result = IF flipped THEN "nesw-resize" ELSE "nwse-resize"
            /\ handle \in {"ne", "sw"} =>
                 pureCall.result = IF flipped THEN "nwse-resize" ELSE "nesw-resize"

\* C19 witness: the nw handle of an unrotated element of negative width and
\* positive height gets the cursor of the other diagonal.
C19_Witness ==
  /\ pureCall.op = "getCursorForResizingElement"
  /\ pureCall.arg.transformHandleType = "nw"
  /\ pureCall.arg.element.present /\ pureCall.arg.element.angle = 0
  /\ pureCall.arg.element.width < 0 /\ pureCall.arg.element.height > 0
  /\ pureCall.result = "nesw-resize"

\* C28: for every resize handle role and every angle that is a whole number
\* of eighth turns from -2 pi to 2 pi, getCursorForResizingElement returns
\* one of ns-resize, ew-resize, nwse-resize and nesw-resize, and the angle
\* half a turn further gives the same cursor.
C28_CursorAtEveryEighthTurn ==
  ( /\ pureCall.op = "getCursorForResizingElement"
    /\ pureCall.arg.element.present
    /\ pureCall.arg.transformHandleType \in {"n", "s", "e", "w", "ne", "nw", "se", "sw"} ) =>
    /\ pureCall.result \in {"ns-resize", "ew-resize", "nwse-resize", "nesw-resize"}
    /\ pureCall.arg.element.angle + 4 <= 8 =>
         getCursorForResizingElement(
           [pureCall.arg.element EXCEPT !.angle = @ + 4],
           pureCall.arg.transformHandleType) = pureCall.result

\* C20: every line, arrow or freehand shape that restore returns has a
\* points list whose first point is [0, 0], also when the imported points
\* start elsewhere, are missing or are fewer than 2; when the imported shape
\* has 2 points or more, x + px and y + py of every point are what they were.
C20_FirstPointIsOrigin ==
  (pureCall.op = "restoreElement" /\ pureCall.result.type \in {"line", "arrow", "freedraw"}) =>
    LET in == pureCall.arg
        out == pureCall.result
    IN /\ out.hasPoints
       /\ Len(out.points) >= 1
       /\ out.points[1] = <<0, 0>>
       /\ (in.hasPoints /\ Len(in.points) >= 2) =>
            /\ Len(out.points) = Len(in.points)
            /\ \A i \in 1..Len(in.points) :
                 /\ out.x + out.points[i][1] = in.x + in.points[i][1]
                 /\ out.y + out.points[i][2] = in.y + in.points[i][2]

\* C21: after actionCropImage on a selected image of positive width and
\* height that carries a crop rectangle, whatever that rectangle was, the
\* image's crop rectangle has 0 <= x, 0 <= y, x + width <= element.width and
\* y + height <= element.height.
C21_CropRectangleInsideImage ==
  (/\ pureCall.op = "actionCropImage"
   /\ pureCall.arg.selected = {"a"}
   /\ pureCall.result.storeAction = "CAPTURE") =>
    \A i \in 1..Len(pureCall.result.elements) :
      LET el == pureCall.result.elements[i]
      IN el.id = "a" =>
           /\ 0 <= el.cropProperties.x
           /\ 0 <= el.cropProperties.y
           /\ el.cropProperties.x + el.cropProperties.width <= el.width
           /\ el.cropProperties.y + el.cropProperties.height <= el.height

\* C29: actionCropImage.perform returns the elements unchanged with
\* StoreAction.NONE and raises nothing unless exactly one element is selected
\* and it is an image; in that case it sets the crop flags and the crop
\* rectangle of that element and changes no other element.
C29_CropsOnlyOneSelectedImage ==
  pureCall.op = "actionCropImage" =>
    LET in == pureCall.arg
        out == pureCall.result
        oneImage == /\ Cardinality(in.selected) = 1
                    /\ \E i \in 1..Len(in.elements) :
                         in.elements[i].id \in in.selected /\ in.elements[i].type = "image"
    IN IF oneImage
         THEN /\ out.storeAction = "CAPTURE"
              /\ \A i \in 1..Len(in.elements) :
                   IF in.elements[i].id \in in.selected
                     THEN out.elements[i].isRenderCropWindow /\ out.elements[i].isCroppedImage
                     ELSE out.elements[i] = in.elements[i]
         ELSE out.storeAction = "NONE" /\ out.elements = in.elements

\* C22: for the cubic with control points (0,0), (0,50), (100,50), (100,0)
\* getCubicBezierCurveBound gives a Y range that ends at the curve's maximum
\* 37.5, not at 0; and for every cubic the range on each axis contains the
\* end points P0 and P3.
C22_BoundHoldsExtremumAndEndPoints ==
  pureCall.op = "getCubicBezierCurveBound" =>
    LET xs == pureCall.arg.xs
        ys == pureCall.arg.ys
        out == pureCall.result
        within(v, lo, hi) == ~RatLess(v, 1, lo[1], lo[2]) /\ ~RatLess(hi[1], hi[2], v, 1)
    IN /\ (xs = <<0, 0, 100, 100>> /\ ys = <<0, 50, 50, 0>>) =>
            /\ 2 * out[4][1] = 75 * out[4][2]
            /\ out[2] = <<0, 1>>
       /\ within(xs[1], out[1], out[3]) /\ within(xs[4], out[1], out[3])
       /\ within(ys[1], out[2], out[4]) /\ within(ys[4], out[2], out[4])

\* C22 witness: the bound of that cubic was computed and is [0, 0, 100, 37.5].
C22_Witness ==
  /\ pureCall.op = "getCubicBezierCurveBound"
  /\ pureCall.arg = [xs |-> <<0, 0, 100, 100>>, ys |-> <<0, 50, 50, 0>>]
  /\ pureCall.result = <<<<0, 1>>, <<0, 1>>, <<100, 1>>, <<75, 2>>>>

\* the ids of a list of elements, in list order
IdsOf(elements) == [i \in 1..Len(elements) |-> elements[i].id]

C16_OnePassWithLatestConfig ==
  throttleOut.kind = "tick" =>
    IF throttleOut.calls >= 1
      THEN /\ throttleOut.rendered = <<throttleOut.latest>>
           /\ throttleOut.callbacks = <<throttleOut.latest>>
      ELSE throttleOut.rendered = <<>> /\ throttleOut.callbacks = <<>>

\* C16 witness: a tick after three throttled calls, the first with another
\* config than the last.
C16_Witness ==
  /\ throttleOut.kind = "tick"
  /\ throttleOut.calls = 3
  /\ throttleOut.rendered = <<2>>
  /\ throttle.ticks = 2

(***************************************************************************)
(* Claims about one interactive render pass.                               *)
(***************************************************************************)

\* C17: when the draw of one shape's selection border raises, that shape is
\* skipped and the rest of the pass still runs: the borders of the other
\* shapes, the transform handles, snaps, remote cursors and scrollbars are
\* drawn and the result is returned.
C17_FaultySelectionIsSkipped ==
  passCall.called =>
    /\ passCall.out.returned
    /\ passCall.out.steps = <<"transformHandles", "snaps", "remoteCursors", "scrollbars">>
    /\ \A i \in 1..Len(SceneShapes) :
         (~passCall.in.malformed[SceneShapes[i]]
            /\ selectionColorsOf(passCall.in, SceneShapes[i]) # <<>>)
           => \E k \in 1..Len(passCall.out.borders) :
                passCall.out.borders[k].target = SceneShapes[i]

\* C18: in a pass that completes, a shape's border carries the local
\* selection colour exactly when the shape is locally selected and not via a
\* selected group, followed by one colour per remote collaborator that has it
\* selected; a shape with no colour gets no border; a border is dashed
\* exactly when it is a group border or the shape is selected by remote
\* collaborators only.
C18_BorderColoursAndDashRemoteOnly ==
  (passCall.called /\ passCall.out.returned) =>
    LET in == passCall.in
        borders == passCall.out.borders
        direct(e) == in.local[e] /\ ~(in.groupSelected /\ in.inGroup[e])
        colours(e) == (IF direct(e) THEN <<"selectionColor">> ELSE <<>>) \o in.remote[e].clients
    IN /\ \A i \in 1..Len(SceneShapes) :
            LET e == SceneShapes[i]
                mine == { k \in 1..Len(borders) : borders[k].target = e }
            IN IF colours(e) = <<>> THEN mine = {}
               ELSE /\ Cardinality(mine) = 1
                    /\ \A k \in mine :
                         /\ borders[k].selectionColors = colours(e)
                         /\ borders[k].dashed = (in.remote[e].clients # <<>> /\ ~direct(e))
       /\ \A k \in 1..Len(borders) : borders[k].target = "group" => borders[k].dashed

\* C18 (amended): the same colours, and a border is dashed exactly when it is
\* a group border or remoteSelectedElementIds has an entry for the shape,
\* whether or not the shape is also selected locally.
C18_BorderColoursAndDashWhenRemote ==
  (passCall.called /\ passCall.out.returned) =>
    LET in == passCall.in
        borders == passCall.out.borders
        direct(e) == in.local[e] /\ ~(in.groupSelected /\ in.inGroup[e])
        colours(e) == (IF direct(e) THEN <<"selectionColor">> ELSE <<>>) \o in.remote[e].clients
    IN /\ \A i \in 1..Len(SceneShapes) :
            LET e == SceneShapes[i]
                mine == { k \in 1..Len(borders) : borders[k].target = e }
            IN IF colours(e) = <<>> THEN mine = {}
               ELSE /\ Cardinality(mine) = 1
                    /\ \A k \in mine :
                         /\ borders[k].selectionColors = colours(e)
                         /\ borders[k].dashed = in.remote[e].has
       /\ \A k \in 1..Len(borders) : borders[k].target = "group" => borders[k].dashed

\* C18 witness: a completed pass with a group border, a shape selected via
\* the group and by two collaborators, and a shape selected directly and by
\* one collaborator.
C18_Witness ==
  /\ passCall.called /\ passCall.out.returned
  /\ passCall.in.groupSelected /\ passCall.in.inGroup["s1"] /\ ~passCall.in.inGroup["s2"]
  /\ passCall.in.local["s2"]
  /\ passCall.out.borders =
       <<[target |-> "s1", selectionColors |-> <<"c1", "c2">>, dashed |-> TRUE],
         [target |-> "s2", selectionColors |-> <<"selectionColor", "c1">>, dashed |-> TRUE],
         [target |-> "group", selectionColors |-> <<"black">>, dashed |-> TRUE]>>

====
